---- MODULE Spec2Model ----
(***************************************************************************)
(* A model of the MODBUS TCP client and server of this repository:         *)
(*   - the codec (encoding.rs, message.rs, messages/*.rs) as operators on  *)
(*     sequences of bytes;                                                 *)
(*   - the client transaction multiplexer (client.rs): callers, the        *)
(*     pending map, the one-shot slots and the background reader task;     *)
(*   - the server dispatcher (server.rs): connection admission, the        *)
(*     per-connection pump with its semaphore, the handler tasks;          *)
(*   - the in-memory device of modbus-test/src/server.rs as the handler.   *)
(***************************************************************************)
EXTENDS Integers, Sequences, FiniteSets, TLC

(***************************************************************************)
(* Bounds of the model.                                                    *)
(***************************************************************************)
\* Callers (tasks calling client operations) of the multiplexer model.
MaxCallers == 3
\* The id space of the AtomicU16 transaction counter is 2^16; the model
\* scales it down to TidModulus ids so that the wrap of the counter while
\* requests are pending is reachable.
TidModulus == 2
\* Peers that connect to the server.
MaxConnections == 3
\* Messages a peer sends on one connection.
MaxMessages == 2

(***************************************************************************)
(* Integer widths and bit operations (Rust's u8/u16 operators).            *)
(***************************************************************************)
U8_MAX == 255
U16_MAX == 65535

RECURSIVE BitAnd(_, _)
BitAnd(a, b) ==
    IF a = 0 \/ b = 0 THEN 0
    ELSE (a % 2) * (b % 2) + 2 * BitAnd(a \div 2, b \div 2)

RECURSIVE BitOr(_, _)
BitOr(a, b) ==
    IF a = 0 THEN b
    ELSE IF b = 0 THEN a
    ELSE (IF (a % 2) + (b % 2) > 0 THEN 1 ELSE 0) + 2 * BitOr(a \div 2, b \div 2)

\* !x on a u16
BitNot16(a) == U16_MAX - a

\* usize::div_ceil
Max(a, b) == IF a >= b THEN a ELSE b

DivCeil(n, d) == (n + d - 1) \div d


(***************************************************************************)
(* Protocol constants (consts.rs, message.rs).                             *)
(***************************************************************************)
READ_COILS_MAX_LEN == 2000
READ_DISCRETE_INPUTS_MAX_LEN == 2000
READ_HOLDING_REGISTERS_MAX_LEN == 125
READ_INPUT_REGISTERS_MAX_LEN == 125
WRITE_MULTIPLE_COILS_MAX_LEN == 1968
WRITE_MULTIPLE_HOLDING_REGISTERS_MAX_LEN == 123
MSG_MAX_LENGTH == 260

(***************************************************************************)
(* FunctionCode (function_code.rs), as its u8 value.                       *)
(***************************************************************************)
FC_ReadCoils == 1
FC_ReadDiscreteInputs == 2
FC_ReadHoldingRegisters == 3
FC_ReadInputRegisters == 4
FC_WriteSingleCoil == 5
FC_WriteSingleHoldingRegister == 6
FC_WriteMultipleCoils == 15
FC_WriteMultipleHoldingRegisters == 16
FC_MaskWriteHoldingRegister == 22
FC_ModbusEncapsulatedInterface == 43

KnownFunctionCodes == {1, 2, 3, 4, 5, 6, 15, 16, 22, 43}

\* From<u8> for FunctionCode: the variant a byte decodes to.
FunctionCodeVariant(value) ==
    IF value \in KnownFunctionCodes THEN "Known"
    ELSE IF BitAnd(value, 128) # 0 THEN "Error"
    ELSE "Unknown"

\* FunctionCode::as_err, as the u8 the Error variant carries.
\* The error code by addition in place of the bitwise or.
as_err_by_addition(fc) == (fc + 128) % 256

as_err(fc) == BitOr(fc, 128)

(***************************************************************************)
(* ModbusException (modbus_exception.rs), as its u8 value.                 *)
(***************************************************************************)
EX_IllegalFunction == 1
EX_IllegalDataAddress == 2
EX_IllegalDataValue == 3
EX_ServerDeviceFailure == 4

(***************************************************************************)
(* Encoder (encoding.rs): every write returns the bytes it appends.        *)
(***************************************************************************)
write_u8(value) == <<value>>

write_u16(value) == <<value \div 256, value % 256>>

\* One packed byte: bit i2 is values[i*8 + i2] (0-based), absent bits are 0.
RECURSIVE PackByte(_, _, _)
PackByte(values, i, i2) ==
    IF i2 = 8 THEN 0
    ELSE (IF i * 8 + i2 + 1 <= Len(values) /\ values[i * 8 + i2 + 1] THEN 1 ELSE 0)
         + 2 * PackByte(values, i, i2 + 1)

write_bools(values) ==
    [i \in 1..DivCeil(Len(values), 8) |-> PackByte(values, i - 1, 0)]

write_bytes(value) == value

write_registers(value) ==
    [k \in 1..(2 * Len(value)) |->
        IF k % 2 = 1 THEN value[(k + 1) \div 2] \div 256
        ELSE value[k \div 2] % 256]

(***************************************************************************)
(* Decoder (encoding.rs): a read takes the buffer and the cursor position  *)
(* (0-based) and returns [ok, value, pos] or [ok |-> FALSE, err].          *)
(***************************************************************************)
MissingData == [ok |-> FALSE, err |-> "MissingData"]
InvalidData == [ok |-> FALSE, err |-> "InvalidData"]

remaining(buf, pos) == Len(buf) - pos

read_u8(buf, pos) ==
    IF remaining(buf, pos) < 1 THEN MissingData
    ELSE [ok |-> TRUE, value |-> buf[pos + 1], pos |-> pos + 1]

read_u16(buf, pos) ==
    IF remaining(buf, pos) < 2 THEN MissingData
    ELSE [ok |-> TRUE, value |-> buf[pos + 1] * 256 + buf[pos + 2], pos |-> pos + 2]

\* bit i2 of byte: (byte & (1 << i2)) > 0
BitSet(byte, i2) == (byte \div (2 ^ i2)) % 2 = 1

read_bools(buf, pos, length) ==
    LET byte_length == DivCeil(length, 8) IN
    IF remaining(buf, pos) < byte_length THEN MissingData
    ELSE [ok |-> TRUE,
          value |-> [k \in 1..length |->
                        BitSet(buf[pos + ((k - 1) \div 8) + 1], (k - 1) % 8)],
          pos |-> pos + byte_length]

read_bytes(buf, pos, length) ==
    IF remaining(buf, pos) < length THEN MissingData
    ELSE [ok |-> TRUE,
          value |-> [k \in 1..length |-> buf[pos + k]],
          pos |-> pos + length]

read_registers(buf, pos, length) ==
    IF remaining(buf, pos) < length * 2 THEN MissingData
    ELSE [ok |-> TRUE,
          value |-> [k \in 1..length |->
                        buf[pos + 2 * k - 1] * 256 + buf[pos + 2 * k]],
          pos |-> pos + 2 * length]

(***************************************************************************)
(* Message (message.rs).                                                   *)
(***************************************************************************)
Message(transaction_id, protocol_id, unit_id, function_code, body) ==
    [transaction_id |-> transaction_id, protocol_id |-> protocol_id,
     unit_id |-> unit_id, function_code |-> function_code, body |-> body]

\* An encoder that writes body.len() as the length, without the two bytes of
\* unit id and function code.
MessageEncodeLengthOfBody(msg) ==
    IF Len(msg.body) + 2 > U16_MAX THEN [ok |-> FALSE, err |-> "Overflow"]
    ELSE [ok |-> TRUE,
          bytes |-> write_u16(msg.transaction_id) \o write_u16(msg.protocol_id)
                    \o write_u16(Len(msg.body)) \o write_u8(msg.unit_id)
                    \o write_u8(msg.function_code) \o write_bytes(msg.body)]

\* Encodable for Message: [ok, bytes]; Overflow when body.len() + 2 > u16::MAX.
MessageEncode(msg) ==
    IF Len(msg.body) + 2 > U16_MAX THEN [ok |-> FALSE, err |-> "Overflow"]
    ELSE [ok |-> TRUE,
          bytes |-> write_u16(msg.transaction_id) \o write_u16(msg.protocol_id)
                    \o write_u16(Len(msg.body) + 2) \o write_u8(msg.unit_id)
                    \o write_u8(msg.function_code) \o write_bytes(msg.body)]

\* Decodable for Message, from position 0 of the buffer, in a build with
\* overflow checks ("debug") or without ("release").
MessageDecodeBuild(buf, build) ==
    LET t == read_u16(buf, 0) IN
    IF ~t.ok THEN t ELSE
    LET p == read_u16(buf, t.pos) IN
    IF ~p.ok THEN p ELSE
    LET l == read_u16(buf, p.pos) IN
    IF ~l.ok THEN l ELSE
    IF l.value > MSG_MAX_LENGTH - 6 THEN InvalidData ELSE
    LET u == read_u8(buf, l.pos) IN
    IF ~u.ok THEN u ELSE
    LET f == read_u8(buf, u.pos) IN
    IF ~f.ok THEN f ELSE
    \* (byte_length - 2).into(): a u16 subtraction, which panics under
    \* overflow checks and wraps without them
    IF l.value < 2 /\ build = "debug" THEN [ok |-> FALSE, err |-> "panic"] ELSE
    LET b == read_bytes(buf, f.pos, (l.value - 2) % 65536) IN
    IF ~b.ok THEN b ELSE
    [ok |-> TRUE,
     value |-> Message(t.value, p.value, u.value, f.value, b.value),
     pos |-> b.pos]

\* Message::decode of a frame whose length field is 2 or more, which is
\* every frame Message::encode produces: both builds decode it alike.
MessageDecode(buf) == MessageDecodeBuild(buf, "release")

(***************************************************************************)
(* Request PDUs (messages/*_request.rs): Decodable::decode_from_bytes.     *)
(* Each returns [ok |-> TRUE, ...fields] or a decode error.                *)
(***************************************************************************)
\* ReadCoils / ReadDiscreteInputs / ReadInputRegisters / ReadHoldingRegisters
\* requests share one layout: address u16, length u16.
ReadRequestEncode(address, length) == write_u16(address) \o write_u16(length)

ReadRequestDecode(body) ==
    LET a == read_u16(body, 0) IN
    IF ~a.ok THEN a ELSE
    LET l == read_u16(body, a.pos) IN
    IF ~l.ok THEN l ELSE
    [ok |-> TRUE, address |-> a.value, length |-> l.value]

WriteSingleCoilRequestEncode(address, value) ==
    write_u16(address) \o write_u16(IF value THEN 65280 ELSE 0)

WriteSingleCoilRequestDecode(body) ==
    LET a == read_u16(body, 0) IN
    IF ~a.ok THEN a ELSE
    LET v == read_u16(body, a.pos) IN
    IF ~v.ok THEN v ELSE
    [ok |-> TRUE, address |-> a.value, value |-> (v.value # 0)]

WriteSingleHoldingRegisterRequestEncode(address, value) ==
    write_u16(address) \o write_u16(value)

WriteSingleHoldingRegisterRequestDecode(body) ==
    LET a == read_u16(body, 0) IN
    IF ~a.ok THEN a ELSE
    LET v == read_u16(body, a.pos) IN
    IF ~v.ok THEN v ELSE
    [ok |-> TRUE, address |-> a.value, value |-> v.value]

\* [ok, bytes]; Overflow when the length or the byte count does not fit.
WriteMultipleCoilsRequestEncode(address, values) ==
    IF Len(values) > U16_MAX \/ DivCeil(Len(values), 8) > U8_MAX
    THEN [ok |-> FALSE, err |-> "Overflow"]
    ELSE [ok |-> TRUE,
          bytes |-> write_u16(address) \o write_u16(Len(values))
                    \o write_u8(DivCeil(Len(values), 8)) \o write_bools(values)]

\* A decode that reads the values whatever the byte count says.
WriteMultipleCoilsRequestDecodeAnyCount(body) ==
    LET a == read_u16(body, 0) IN
    IF ~a.ok THEN a ELSE
    LET l == read_u16(body, a.pos) IN
    IF ~l.ok THEN l ELSE
    LET b == read_u8(body, l.pos) IN
    IF ~b.ok THEN b ELSE
    LET v == read_bools(body, b.pos, l.value) IN
    IF ~v.ok THEN v ELSE
    [ok |-> TRUE, address |-> a.value, values |-> v.value]

WriteMultipleCoilsRequestDecode(body) ==
    LET a == read_u16(body, 0) IN
    IF ~a.ok THEN a ELSE
    LET l == read_u16(body, a.pos) IN
    IF ~l.ok THEN l ELSE
    LET b == read_u8(body, l.pos) IN
    IF ~b.ok THEN b ELSE
    IF DivCeil(l.value, 8) # b.value THEN InvalidData ELSE
    LET v == read_bools(body, b.pos, l.value) IN
    IF ~v.ok THEN v ELSE
    [ok |-> TRUE, address |-> a.value, values |-> v.value]

WriteMultipleHoldingRegistersRequestEncode(address, values) ==
    IF Len(values) > U16_MAX \/ Len(values) * 2 > U8_MAX
    THEN [ok |-> FALSE, err |-> "Overflow"]
    ELSE [ok |-> TRUE,
          bytes |-> write_u16(address) \o write_u16(Len(values))
                    \o write_u8(Len(values) * 2) \o write_registers(values)]

WriteMultipleHoldingRegistersRequestDecode(body) ==
    LET a == read_u16(body, 0) IN
    IF ~a.ok THEN a ELSE
    LET l == read_u16(body, a.pos) IN
    IF ~l.ok THEN l ELSE
    LET b == read_u8(body, l.pos) IN
    IF ~b.ok THEN b ELSE
    IF l.value * 2 # b.value THEN InvalidData ELSE
    LET v == read_registers(body, b.pos, l.value) IN
    IF ~v.ok THEN v ELSE
    [ok |-> TRUE, address |-> a.value, values |-> v.value]

MaskWriteHoldingRegisterRequestEncode(address, and_mask, or_mask) ==
    write_u16(address) \o write_u16(and_mask) \o write_u16(or_mask)

MaskWriteHoldingRegisterRequestDecode(body) ==
    LET a == read_u16(body, 0) IN
    IF ~a.ok THEN a ELSE
    LET n == read_u16(body, a.pos) IN
    IF ~n.ok THEN n ELSE
    LET o == read_u16(body, n.pos) IN
    IF ~o.ok THEN o ELSE
    [ok |-> TRUE, address |-> a.value, and_mask |-> n.value, or_mask |-> o.value]

\* ModbusEncapsulatedInterfaceRequest and -Response share one layout:
\* kind u8, then the rest of the body.
ModbusEncapsulatedInterfaceEncode(kind, data) == write_u8(kind) \o write_bytes(data)

ModbusEncapsulatedInterfaceDecode(body) ==
    LET k == read_u8(body, 0) IN
    IF ~k.ok THEN k ELSE
    LET d == read_bytes(body, k.pos, remaining(body, k.pos)) IN
    [ok |-> TRUE, kind |-> k.value, data |-> d.value]

MEI_ReadDeviceIdentification == 14

ReadDeviceIdentificationRequestEncode(device_id_code, object_id) ==
    write_u8(device_id_code) \o write_u8(object_id)

ReadDeviceIdentificationRequestDecode(body) ==
    LET c == read_u8(body, 0) IN
    IF ~c.ok THEN c ELSE
    LET o == read_u8(body, c.pos) IN
    IF ~o.ok THEN o ELSE
    [ok |-> TRUE, device_id_code |-> c.value, object_id |-> o.value]

(***************************************************************************)
(* Response PDUs (messages/*_response.rs, exception_message.rs).           *)
(***************************************************************************)
ExceptionMessageEncode(code) == write_u8(code)

ExceptionMessageDecode(body) ==
    LET c == read_u8(body, 0) IN
    IF ~c.ok THEN c ELSE [ok |-> TRUE, code |-> c.value]

\* ReadCoilsResponse and ReadDiscreteInputsResponse share one layout.
ReadCoilsResponseEncode(values) ==
    IF DivCeil(Len(values), 8) > U8_MAX THEN [ok |-> FALSE, err |-> "Overflow"]
    ELSE [ok |-> TRUE,
          bytes |-> write_u8(DivCeil(Len(values), 8)) \o write_bools(values)]

ReadCoilsResponseDecode(body) ==
    LET b == read_u8(body, 0) IN
    IF ~b.ok THEN b ELSE
    LET v == read_bools(body, b.pos, b.value * 8) IN
    IF ~v.ok THEN v ELSE
    [ok |-> TRUE, values |-> v.value]

\* ReadHoldingRegistersResponse and ReadInputRegistersResponse share one layout.
ReadHoldingRegistersResponseEncode(values) ==
    IF Len(values) * 2 > U8_MAX THEN [ok |-> FALSE, err |-> "Overflow"]
    ELSE [ok |-> TRUE,
          bytes |-> write_u8(Len(values) * 2) \o write_registers(values)]

ReadHoldingRegistersResponseDecode(body) ==
    LET b == read_u8(body, 0) IN
    IF ~b.ok THEN b ELSE
    IF b.value % 2 # 0 THEN InvalidData ELSE
    LET v == read_registers(body, b.pos, b.value \div 2) IN
    IF ~v.ok THEN v ELSE
    [ok |-> TRUE, values |-> v.value]

\* WriteMultipleCoilsResponse / WriteMultipleHoldingRegistersResponse:
\* address u16, length u16.
WriteMultipleResponseEncode(address, length) == write_u16(address) \o write_u16(length)

WriteMultipleResponseDecode(body) == ReadRequestDecode(body)

(***************************************************************************)
(* Read Device Identification (modbus_encapsulated_interface.rs,           *)
(* messages/read_device_identification_response.rs).                       *)
(***************************************************************************)
RDI_Basic == 1
RDI_Regular == 2
RDI_Extended == 3
RDI_Individual == 4
CL_ExtendedStreamAndIndividual == 131

None == [some |-> FALSE]
Some(v) == [some |-> TRUE, value |-> v]

\* DeviceIdentification: strings as their bytes, Option as None / Some.
DeviceIdentification(vendor_name, product_code, major_minor_revision, vendor_url, product_name, model_name, user_application_name, objects) ==
    [vendor_name |-> vendor_name, product_code |-> product_code,
     major_minor_revision |-> major_minor_revision, vendor_url |-> vendor_url,
     product_name |-> product_name, model_name |-> model_name,
     user_application_name |-> user_application_name, objects |-> objects]

EmptyMap == [x \in {} |-> <<>>]

MinOf(S) == CHOOSE m \in S : \A x \in S : m <= x

\* The objects of a response in the order the encoder writes them. A HashMap
\* iterates in an arbitrary order; the decoder rebuilds a map, so the order is
\* not observable and the model writes ascending ids.
RECURSIVE EncodeObjects(_, _)
EncodeObjects(objects, ids) ==
    IF ids = {} THEN <<>>
    ELSE LET m == MinOf(ids) IN
         write_u8(m) \o write_u8(Len(objects[m])) \o write_bytes(objects[m])
         \o EncodeObjects(objects, ids \ {m})

ReadDeviceIdentificationResponseEncode(res) ==
    IF Cardinality(DOMAIN res.objects) > U8_MAX
       \/ \E id \in DOMAIN res.objects : Len(res.objects[id]) > U8_MAX
    THEN [ok |-> FALSE, err |-> "Overflow"]
    ELSE [ok |-> TRUE,
          bytes |-> write_u8(res.device_id_code) \o write_u8(res.conformity_level)
                    \o write_u8(IF res.more_follows THEN 255 ELSE 0)
                    \o write_u8(res.next_object_id)
                    \o write_u8(Cardinality(DOMAIN res.objects))
                    \o EncodeObjects(res.objects, DOMAIN res.objects)]

\* objects.insert(id, data) for each of the n objects that follow.
RECURSIVE DecodeObjects(_, _, _, _)
DecodeObjects(buf, pos, n, objects) ==
    IF n = 0 THEN [ok |-> TRUE, value |-> objects, pos |-> pos] ELSE
    LET id == read_u8(buf, pos) IN
    IF ~id.ok THEN id ELSE
    LET l == read_u8(buf, id.pos) IN
    IF ~l.ok THEN l ELSE
    LET d == read_bytes(buf, l.pos, l.value) IN
    IF ~d.ok THEN d ELSE
    DecodeObjects(buf, d.pos, n - 1,
                  [x \in (DOMAIN objects) \cup {id.value} |->
                      IF x = id.value THEN d.value ELSE objects[x]])

ReadDeviceIdentificationResponseDecode(body) ==
    LET c == read_u8(body, 0) IN
    IF ~c.ok THEN c ELSE
    LET cl == read_u8(body, c.pos) IN
    IF ~cl.ok THEN cl ELSE
    LET mf == read_u8(body, cl.pos) IN
    IF ~mf.ok THEN mf ELSE
    LET no == read_u8(body, mf.pos) IN
    IF ~no.ok THEN no ELSE
    LET n == read_u8(body, no.pos) IN
    IF ~n.ok THEN n ELSE
    LET o == DecodeObjects(body, n.pos, n.value, EmptyMap) IN
    IF ~o.ok THEN o ELSE
    [ok |-> TRUE, device_id_code |-> c.value, conformity_level |-> cl.value,
     more_follows |-> (mf.value # 0), next_object_id |-> no.value,
     objects |-> o.value]

(***************************************************************************)
(* The handler (modbus-test/src/server.rs, ServerImpl): coils with coil k  *)
(* initially k % 2 == 0, holding registers with register k initially k.    *)
(* Both vectors hold 65536 entries; the model keeps the written entries.   *)
(***************************************************************************)
CoilAt(coils, k) == IF k \in DOMAIN coils THEN coils[k] ELSE (k % 2 = 0)

HoldingAt(holding_registers, k) ==
    IF k \in DOMAIN holding_registers THEN holding_registers[k] ELSE k

\* coils[address + i] = values[i] for every i
StoreValues(store, address, values) ==
    [k \in (DOMAIN store) \cup {address + i - 1 : i \in 1..Len(values)} |->
        IF k >= address /\ k < address + Len(values)
        THEN values[k - address + 1] ELSE store[k]]

handle_read_coils(h, address, length) ==
    [i \in 1..length |-> CoilAt(h.coils, address + i - 1)]

handle_read_discrete_inputs(h, address, length) ==
    [i \in 1..length |-> ((address + i - 1) % 2 = 0)]

handle_read_input_registers(h, address, length) ==
    [i \in 1..length |-> address + i - 1]

handle_read_holding_registers(h, address, length) ==
    [i \in 1..length |-> HoldingAt(h.holding_registers, address + i - 1)]

handle_write_coils(h, address, values) ==
    [h EXCEPT !.coils = StoreValues(h.coils, address, values)]

handle_write_holding_registers(h, address, values) ==
    [h EXCEPT !.holding_registers = StoreValues(h.holding_registers, address, values)]

handle_read_device_identification(h) == h.device_info

(***************************************************************************)
(* Server request handling (server.rs).  A hook result is                  *)
(* Ok(body) == [ok |-> TRUE, body] or Err(code) == [ok |-> FALSE, code].   *)
(***************************************************************************)
Ok(body) == [ok |-> TRUE, body |-> body]
Err(code) == [ok |-> FALSE, code |-> code]

\* bytes.map_err(|_| ModbusException::ServerDeviceFailure)
EncodedOrFailure(enc) == IF enc.ok THEN Ok(enc.bytes) ELSE Err(EX_ServerDeviceFailure)

\* validate_input with a wrapping add in place of checked_add: no address
\* is out of range.
server_validate_input_wrapping_add(address, length, max_length) ==
    IF length = 0 \/ length > max_length THEN EX_IllegalDataValue
    ELSE IF (address + (length - 1)) % 65536 > U16_MAX THEN EX_IllegalDataAddress
    ELSE 0

\* server.rs validate_input: 0 when valid, else the exception code.
server_validate_input(address, length, max_length) ==
    IF length = 0 \/ length > max_length THEN EX_IllegalDataValue
    ELSE IF address + (length - 1) > U16_MAX THEN EX_IllegalDataAddress
    ELSE 0

\* A validate_output that accepts a slice longer than asked for.
validate_output_at_least(length, expected_length) ==
    IF length < expected_length THEN EX_ServerDeviceFailure ELSE 0

\* server.rs validate_output: 0 when valid, else the exception code.
validate_output(length, expected_length) ==
    IF length # expected_length THEN EX_ServerDeviceFailure ELSE 0

\* get_data of read_device_identification
get_data(device_info, id) ==
    CASE id = 0 -> Some(device_info.vendor_name)
      [] id = 1 -> Some(device_info.product_code)
      [] id = 2 -> Some(device_info.major_minor_revision)
      [] id = 3 -> device_info.vendor_url
      [] id = 4 -> device_info.product_name
      [] id = 5 -> device_info.model_name
      [] id = 6 -> device_info.user_application_name
      [] OTHER -> IF id \in DOMAIN device_info.objects
                  THEN Some(device_info.objects[id]) ELSE None

\* The loop `for id in first..=max_object_id` of read_device_identification,
\* from id on; an id without data is passed over (`None => continue`).
RECURSIVE RdiScan(_, _, _, _, _)
RdiScan(device_info, id, max_object_id, msg_length, objects) ==
    LET present == {i \in id..max_object_id : get_data(device_info, i).some} IN
    IF present = {} THEN [objects |-> objects, next_object_id |-> 0] ELSE
    LET next == MinOf(present)
        data == get_data(device_info, next)
        l == msg_length + 2 + Len(data.value)
    IN IF l > MSG_MAX_LENGTH
       THEN [objects |-> objects, next_object_id |-> next]
       ELSE CHOOSE r \in
                {RdiScan(device_info, first, max_object_id, length, inserted) :
                    first \in {next + 1}, length \in {l},
                    inserted \in {[x \in (DOMAIN objects) \cup {next} |->
                                     IF x = next THEN data.value ELSE objects[x]]}} : TRUE

\* `req.object_id + 1` on a u8: with overflow checks (a debug build) the
\* addition panics at 255, without them (a release build) it wraps to 0.
\* [panic |-> TRUE] or [panic |-> FALSE, value].
ObjectIdPlusOne(object_id, build) ==
    IF object_id + 1 > U8_MAX
    THEN (IF build = "debug" THEN [panic |-> TRUE]
          ELSE [panic |-> FALSE, value |-> (object_id + 1) % 256])
    ELSE [panic |-> FALSE, value |-> object_id + 1]

\* A read_device_identification that answers Individual as it answers the
\* stream codes: with the objects that follow the requested one.
read_device_identification_streamed(req, device_info, build) ==
    LET data == get_data(device_info, req.object_id) IN
    IF ~data.some THEN [kind |-> "err", code |-> EX_IllegalDataAddress] ELSE
    IF req.device_id_code \notin {RDI_Basic, RDI_Regular, RDI_Extended, RDI_Individual}
    THEN [kind |-> "err", code |-> EX_IllegalDataValue] ELSE
    LET max_object_id == CASE req.device_id_code = RDI_Basic -> 2
                           [] req.device_id_code = RDI_Regular -> 127
                           [] OTHER -> 255
        msg_length == 8 + 1 + 5 + 2 + Len(data.value)
        first == ObjectIdPlusOne(req.object_id, build)
    IN
    IF msg_length > MSG_MAX_LENGTH
    THEN [kind |-> "err", code |-> EX_IllegalDataValue] ELSE
    IF first.panic THEN [kind |-> "panic"] ELSE
    LET scan == RdiScan(device_info, first.value, max_object_id, msg_length,
                        [x \in {req.object_id} |-> data.value])
    IN [kind |-> "ok",
        res |-> [device_id_code |-> req.device_id_code,
                 conformity_level |-> CL_ExtendedStreamAndIndividual,
                 more_follows |-> (scan.next_object_id # 0),
                 next_object_id |-> scan.next_object_id,
                 objects |-> scan.objects]]

\* ModbusTCPServer::read_device_identification, after the handler's hook
\* returned device_info: [kind |-> "ok", res] / [kind |-> "err", code] /
\* [kind |-> "panic"].
read_device_identification(req, device_info, build) ==
    LET data == get_data(device_info, req.object_id) IN
    IF ~data.some THEN [kind |-> "err", code |-> EX_IllegalDataAddress] ELSE
    IF req.device_id_code \notin {RDI_Basic, RDI_Regular, RDI_Extended, RDI_Individual}
    THEN [kind |-> "err", code |-> EX_IllegalDataValue] ELSE
    IF req.device_id_code = RDI_Individual
    THEN [kind |-> "ok",
          res |-> [device_id_code |-> req.device_id_code,
                   conformity_level |-> CL_ExtendedStreamAndIndividual,
                   more_follows |-> FALSE, next_object_id |-> 0,
                   objects |-> [x \in {req.object_id} |-> data.value]]]
    ELSE
    LET max_object_id == CASE req.device_id_code = RDI_Basic -> 2
                           [] req.device_id_code = RDI_Regular -> 127
                           [] OTHER -> 255
        msg_length == 8 + 1 + 5 + 2 + Len(data.value)
        first == ObjectIdPlusOne(req.object_id, build)
    IN
    IF msg_length > MSG_MAX_LENGTH
    THEN [kind |-> "err", code |-> EX_IllegalDataValue] ELSE
    IF first.panic THEN [kind |-> "panic"] ELSE
    LET scan == RdiScan(device_info, first.value, max_object_id, msg_length,
                        [x \in {req.object_id} |-> data.value])
    IN [kind |-> "ok",
        res |-> [device_id_code |-> req.device_id_code,
                 conformity_level |-> CL_ExtendedStreamAndIndividual,
                 more_follows |-> (scan.next_object_id # 0),
                 next_object_id |-> scan.next_object_id,
                 objects |-> scan.objects]]

\* ModbusTCPServer::modbus_encapsulated_interface: [kind |-> "done", result]
\* or [kind |-> "panic"]. fault is the exception the hook fails with, 0 for none.
modbus_encapsulated_interface(req, h, fault, build) ==
    IF req.kind = MEI_ReadDeviceIdentification THEN
        LET inner == ReadDeviceIdentificationRequestDecode(req.data) IN
        IF ~inner.ok THEN [kind |-> "done", result |-> Err(EX_ServerDeviceFailure)] ELSE
        IF fault # 0 THEN [kind |-> "done", result |-> Err(fault)] ELSE
        LET r == read_device_identification(inner, handle_read_device_identification(h), build) IN
        CASE r.kind = "panic" -> [kind |-> "panic"]
          [] r.kind = "err" -> [kind |-> "done", result |-> Err(r.code)]
          [] OTHER ->
             LET data == ReadDeviceIdentificationResponseEncode(r.res) IN
             IF ~data.ok THEN [kind |-> "done", result |-> Err(EX_ServerDeviceFailure)]
             ELSE [kind |-> "done",
                   result |-> Ok(ModbusEncapsulatedInterfaceEncode(req.kind, data.bytes))]
    ELSE
        \* handle_modbus_encapsulated_interface: the device keeps the trait's default
        [kind |-> "done",
         result |-> Err(IF fault # 0 THEN fault ELSE EX_IllegalFunction)]

\* A result with the note whether the handler's hook was called for it.
Hooked(r, called) ==
    [f \in (DOMAIN r) \cup {"hook_called"} |-> IF f = "hook_called" THEN called ELSE r[f]]

\* A read function once its hook returned the slice values: validate_output
\* against the request's length, then the response and its encoding.
ServerReadReturned(values, expected_length, table) ==
    LET o == validate_output(Len(values), expected_length)
    IN IF o # 0 THEN Hooked(Err(o), TRUE)
       ELSE IF table \in {"coils", "discrete_inputs"}
            THEN Hooked(EncodedOrFailure(ReadCoilsResponseEncode(values)), TRUE)
            ELSE Hooked(EncodedOrFailure(ReadHoldingRegistersResponseEncode(values)), TRUE)

\* A read request: decode, validate_input, hook, validate_output, encode.
\* table names the hook called and with it the response's encoding.
ServerRead(msg, max_length, fault, h, table) ==
    LET req == ReadRequestDecode(msg.body) IN
    IF ~req.ok THEN Hooked(Err(EX_ServerDeviceFailure), FALSE) ELSE
    LET v == server_validate_input(req.address, req.length, max_length) IN
    IF v # 0 THEN Hooked(Err(v), FALSE) ELSE
    IF fault # 0 THEN Hooked(Err(fault), TRUE) ELSE
    LET values ==
            CASE table = "coils" -> handle_read_coils(h, req.address, req.length)
              [] table = "discrete_inputs" ->
                    handle_read_discrete_inputs(h, req.address, req.length)
              [] table = "input_registers" ->
                    handle_read_input_registers(h, req.address, req.length)
              [] table = "holding_registers" ->
                    handle_read_holding_registers(h, req.address, req.length)
    IN ServerReadReturned(values, req.length, table)

Step(next, result, h, current_value) ==
    [next |-> next, result |-> result, h |-> h, current_value |-> current_value]

\* handle_request up to and including its first handler hook.  h is the
\* handler's state, fault the exception the hook fails with (0: none).
\* next is "write" when the result is final, "hook2" when a mask write still
\* has to store, "panic" when the task panicked.
HandleRequest1(msg, h, fault, build) ==
    LET fc == msg.function_code IN
    CASE fc = FC_ReadCoils ->
           Step("write", ServerRead(msg, READ_COILS_MAX_LEN, fault, h, "coils"),
                h, 0)
      [] fc = FC_ReadDiscreteInputs ->
           Step("write", ServerRead(msg, READ_DISCRETE_INPUTS_MAX_LEN, fault, h, "discrete_inputs"),
                h, 0)
      [] fc = FC_ReadInputRegisters ->
           Step("write", ServerRead(msg, READ_INPUT_REGISTERS_MAX_LEN, fault, h, "input_registers"),
                h, 0)
      [] fc = FC_ReadHoldingRegisters ->
           Step("write", ServerRead(msg, READ_HOLDING_REGISTERS_MAX_LEN, fault, h, "holding_registers"),
                h, 0)
      [] fc = FC_WriteSingleCoil ->
           LET req == WriteSingleCoilRequestDecode(msg.body) IN
           IF ~req.ok THEN Step("write", Err(EX_ServerDeviceFailure), h, 0) ELSE
           IF fault # 0 THEN Step("write", Err(fault), h, 0) ELSE
           Step("write", Ok(WriteSingleCoilRequestEncode(req.address, req.value)),
                handle_write_coils(h, req.address, <<req.value>>), 0)
      [] fc = FC_WriteSingleHoldingRegister ->
           LET req == WriteSingleHoldingRegisterRequestDecode(msg.body) IN
           IF ~req.ok THEN Step("write", Err(EX_ServerDeviceFailure), h, 0) ELSE
           IF fault # 0 THEN Step("write", Err(fault), h, 0) ELSE
           Step("write", Ok(WriteSingleHoldingRegisterRequestEncode(req.address, req.value)),
                handle_write_holding_registers(h, req.address, <<req.value>>), 0)
      [] fc = FC_WriteMultipleCoils ->
           LET req == WriteMultipleCoilsRequestDecode(msg.body) IN
           IF ~req.ok THEN Step("write", Err(EX_ServerDeviceFailure), h, 0) ELSE
           LET v == server_validate_input(req.address, Len(req.values) % 65536,
                                          WRITE_MULTIPLE_COILS_MAX_LEN) IN
           IF v # 0 THEN Step("write", Err(v), h, 0) ELSE
           IF fault # 0 THEN Step("write", Err(fault), h, 0) ELSE
           Step("write", Ok(WriteMultipleResponseEncode(req.address, Len(req.values) % 65536)),
                handle_write_coils(h, req.address, req.values), 0)
      [] fc = FC_WriteMultipleHoldingRegisters ->
           LET req == WriteMultipleHoldingRegistersRequestDecode(msg.body) IN
           IF ~req.ok THEN Step("write", Err(EX_ServerDeviceFailure), h, 0) ELSE
           LET v == server_validate_input(req.address, Len(req.values) % 65536,
                                          WRITE_MULTIPLE_HOLDING_REGISTERS_MAX_LEN) IN
           IF v # 0 THEN Step("write", Err(v), h, 0) ELSE
           IF fault # 0 THEN Step("write", Err(fault), h, 0) ELSE
           Step("write", Ok(WriteMultipleResponseEncode(req.address, Len(req.values) % 65536)),
                handle_write_holding_registers(h, req.address, req.values), 0)
      [] fc = FC_MaskWriteHoldingRegister ->
           LET req == MaskWriteHoldingRegisterRequestDecode(msg.body) IN
           IF ~req.ok THEN Step("write", Err(EX_ServerDeviceFailure), h, 0) ELSE
           IF fault # 0 THEN Step("write", Err(fault), h, 0) ELSE
           LET current_value == handle_read_holding_registers(h, req.address, 1)
               o == validate_output(Len(current_value), 1)
           IN IF o # 0 THEN Step("write", Err(o), h, 0)
              ELSE Step("hook2", Err(0), h, current_value[1])
      [] fc = FC_ModbusEncapsulatedInterface ->
           LET req == ModbusEncapsulatedInterfaceDecode(msg.body) IN
           IF ~req.ok THEN Step("write", Err(EX_ServerDeviceFailure), h, 0) ELSE
           LET r == modbus_encapsulated_interface(req, h, fault, build) IN
           IF r.kind = "panic" THEN Step("panic", Err(0), h, 0)
           ELSE Step("write", r.result, h, 0)
      [] OTHER -> Step("write", Err(EX_IllegalFunction), h, 0)

\* The value a mask write stores.
MaskValue(current_value, and_mask, or_mask) ==
    BitOr(BitAnd(current_value, and_mask), BitAnd(or_mask, BitNot16(and_mask)))

\* mask_write_holding_register after its read hook returned current_value:
\* compute, store through the write hook, answer.
HandleRequest2(msg, current_value, h, fault) ==
    LET req == MaskWriteHoldingRegisterRequestDecode(msg.body)
        value == MaskValue(current_value, req.and_mask, req.or_mask)
    IN IF fault # 0 THEN Step("write", Err(fault), h, 0)
       ELSE Step("write",
                 Ok(MaskWriteHoldingRegisterRequestEncode(req.address, req.and_mask, req.or_mask)),
                 handle_write_holding_registers(h, req.address, <<value>>), 0)

\* handle_request run to its end with no other task in between.
HandleRequest(msg, h, build) ==
    LET s1 == HandleRequest1(msg, h, 0, build) IN
    IF s1.next = "hook2" THEN HandleRequest2(msg, s1.current_value, h, 0) ELSE s1

\* The response message a handler task builds from the request and the
\* result of handle_request (process).
ResponseMessage(msg, result) ==
    [msg EXCEPT
        !.function_code = IF ~result.ok THEN as_err(msg.function_code) ELSE msg.function_code,
        !.body = IF result.ok THEN result.body ELSE ExceptionMessageEncode(result.code)]

(***************************************************************************)
(* Client operations (client.rs).  A call is                               *)
(* [op, unit_id, address, length, values]: length is the `length` argument *)
(* of a read and values.len() of a multiple write; values holds the values *)
(* of a write (for a mask write: <<and_mask, or_mask>>; a coil as 1 for    *)
(* true and 0 for false).  For modbus_encapsulated_interface, address is   *)
(* the interface_type argument and values the data argument.               *)
(***************************************************************************)
\* The bools a call's coil values stand for.
Bools(values) == [i \in 1..Len(values) |-> (values[i] = 1)]

Call(op, unit_id, address, length, values) ==
    [op |-> op, unit_id |-> unit_id, address |-> address, length |-> length,
     values |-> values]

ValidatedOps == {"read_coils", "read_discrete_inputs", "read_input_registers",
                 "read_holding_registers", "write_multiple_coils",
                 "write_multiple_holding_registers"}

\* The max_length each operation passes to validate_input.
OpMaxLen(op) ==
    CASE op = "read_coils" -> READ_COILS_MAX_LEN
      [] op = "read_discrete_inputs" -> READ_DISCRETE_INPUTS_MAX_LEN
      [] op = "read_input_registers" -> READ_INPUT_REGISTERS_MAX_LEN
      [] op = "read_holding_registers" -> READ_HOLDING_REGISTERS_MAX_LEN
      [] op = "write_multiple_coils" -> WRITE_MULTIPLE_COILS_MAX_LEN
      [] op = "write_multiple_holding_registers" -> WRITE_MULTIPLE_HOLDING_REGISTERS_MAX_LEN

\* The FunctionCode each operation passes to send_request.
OpFunctionCode(op) ==
    CASE op = "read_coils" -> FC_ReadCoils
      [] op = "read_discrete_inputs" -> FC_ReadDiscreteInputs
      [] op = "read_input_registers" -> FC_ReadInputRegisters
      [] op = "read_holding_registers" -> FC_ReadHoldingRegisters
      [] op = "write_single_coils" -> FC_WriteSingleCoil
      [] op = "write_single_holding_register" -> FC_WriteSingleHoldingRegister
      [] op = "write_multiple_coils" -> FC_WriteMultipleCoils
      [] op = "write_multiple_holding_registers" -> FC_WriteMultipleHoldingRegisters
      [] op = "mask_write_holding_registers" -> FC_MaskWriteHoldingRegister
      [] op = "modbus_encapsulated_interface" -> FC_ModbusEncapsulatedInterface

\* validate_input with a wrapping add in place of checked_add.
validate_input_wrapping_add(address, length, max_length) ==
    IF length = 0 \/ length > max_length THEN FALSE
    ELSE (address + ((length - 1) % 65536)) % 65536 <= U16_MAX

\* client.rs validate_input: TRUE when the arguments pass.
validate_input(address, length, max_length) ==
    IF length = 0 \/ length > max_length THEN FALSE
    ELSE address + ((length - 1) % 65536) <= U16_MAX

\* The validation an operation starts with (the single writes and the mask
\* write have none).
OpValidate(call) ==
    IF call.op \in ValidatedOps
    THEN validate_input(call.address, call.length, OpMaxLen(call.op))
    ELSE TRUE

\* req.encode_to_bytes() of the operation's request.
OpRequestBody(call) ==
    CASE call.op \in {"read_coils", "read_discrete_inputs", "read_input_registers",
                      "read_holding_registers"} ->
           ReadRequestEncode(call.address, call.length)
      [] call.op = "write_single_coils" ->
           WriteSingleCoilRequestEncode(call.address, call.values[1] = 1)
      [] call.op = "write_single_holding_register" ->
           WriteSingleHoldingRegisterRequestEncode(call.address, call.values[1])
      [] call.op = "write_multiple_coils" ->
           WriteMultipleCoilsRequestEncode(call.address, Bools(call.values)).bytes
      [] call.op = "write_multiple_holding_registers" ->
           WriteMultipleHoldingRegistersRequestEncode(call.address, call.values).bytes
      [] call.op = "mask_write_holding_registers" ->
           MaskWriteHoldingRegisterRequestEncode(call.address, call.values[1], call.values[2])
      [] call.op = "modbus_encapsulated_interface" ->
           ModbusEncapsulatedInterfaceEncode(call.address, call.values)

\* ModbusError values.
IOError == [kind |-> "IO"]
ArgumentsOutOfRange == [kind |-> "ArgumentsOutOfRange"]
InvalidResponse(text) == [kind |-> "InvalidResponse", text |-> text]
ModbusException(code) == [kind |-> "ModbusException", code |-> code]
Success(value) == [kind |-> "Ok", value |-> value]
NoResult == [kind |-> "None"]

\* The Message send_request builds.
RequestMessage(transaction_id, call) ==
    Message(transaction_id, 0, call.unit_id, OpFunctionCode(call.op), OpRequestBody(call))

\* The checks of send_request without the comparison of the unit id.
CheckResponseWithoutUnitId(msg, res_msg) ==
    IF res_msg.protocol_id # msg.protocol_id THEN InvalidResponse("Protocol id mismatch")
    ELSE IF FunctionCodeVariant(res_msg.function_code) = "Error" THEN
        LET ex_res == ExceptionMessageDecode(res_msg.body) IN
        IF ~ex_res.ok THEN InvalidResponse("Malformed response")
        ELSE ModbusException(ex_res.code)
    ELSE IF res_msg.function_code # msg.function_code
        THEN InvalidResponse("Function code mismatch")
    ELSE Success(res_msg.body)

\* send_request after the one-shot delivered Ok(res_msg): the checks of the
\* echoed header, Success(body) when they pass.
CheckResponse(msg, res_msg) ==
    IF res_msg.protocol_id # msg.protocol_id THEN InvalidResponse("Protocol id mismatch")
    ELSE IF res_msg.unit_id # msg.unit_id THEN InvalidResponse("Unit id mismatch")
    ELSE IF FunctionCodeVariant(res_msg.function_code) = "Error" THEN
        LET ex_res == ExceptionMessageDecode(res_msg.body) IN
        IF ~ex_res.ok THEN InvalidResponse("Malformed response")
        ELSE ModbusException(ex_res.code)
    ELSE IF res_msg.function_code # msg.function_code
        THEN InvalidResponse("Function code mismatch")
    ELSE Success(res_msg.body)

\* client.rs modbus_encapsulated_interface once send_request returned.
ClientMeiFinish(interface_type, returned) ==
    IF returned.kind # "Ok" THEN returned ELSE
    LET res == ModbusEncapsulatedInterfaceDecode(returned.value) IN
    IF ~res.ok THEN InvalidResponse("Malformed response")
    ELSE IF res.kind # interface_type THEN InvalidResponse("Interface type mismatch")
    ELSE Success(res.data)

\* The rest of a public operation with the response PDU decoded and the
\* echoed fields of a write left unchecked.
OpFinishWithoutEchoCheck(call, sent) ==
    IF sent.kind # "Ok" THEN sent ELSE
    CASE call.op \in {"read_coils", "read_discrete_inputs"} ->
           LET res == ReadCoilsResponseDecode(sent.value) IN
           IF ~res.ok THEN InvalidResponse("Malformed response") ELSE Success(res.values)
      [] call.op \in {"read_input_registers", "read_holding_registers"} ->
           LET res == ReadHoldingRegistersResponseDecode(sent.value) IN
           IF ~res.ok THEN InvalidResponse("Malformed response") ELSE Success(res.values)
      [] call.op \in {"write_single_coils", "write_single_holding_register",
                      "write_multiple_coils", "write_multiple_holding_registers"} ->
           IF WriteMultipleResponseDecode(sent.value).ok
           THEN Success(<<>>) ELSE InvalidResponse("Malformed response")
      [] call.op = "mask_write_holding_registers" ->
           IF MaskWriteHoldingRegisterRequestDecode(sent.value).ok
           THEN Success(<<>>) ELSE InvalidResponse("Malformed response")
      [] call.op = "modbus_encapsulated_interface" -> ClientMeiFinish(call.address, sent)

\* The rest of a public operation once send_request returned `sent`: the
\* `?`, the decode of the response PDU and the check of the echoed fields.
OpFinish(call, sent) ==
    IF sent.kind # "Ok" THEN sent ELSE
    CASE call.op \in {"read_coils", "read_discrete_inputs"} ->
           LET res == ReadCoilsResponseDecode(sent.value) IN
           IF ~res.ok THEN InvalidResponse("Malformed response") ELSE Success(res.values)
      [] call.op \in {"read_input_registers", "read_holding_registers"} ->
           LET res == ReadHoldingRegistersResponseDecode(sent.value) IN
           IF ~res.ok THEN InvalidResponse("Malformed response") ELSE Success(res.values)
      [] call.op = "write_single_coils" ->
           LET res == WriteSingleCoilRequestDecode(sent.value) IN
           IF res.ok /\ res.address = call.address /\ res.value = (call.values[1] = 1)
           THEN Success(<<>>) ELSE InvalidResponse("Malformed response")
      [] call.op = "write_single_holding_register" ->
           LET res == WriteSingleHoldingRegisterRequestDecode(sent.value) IN
           IF res.ok /\ res.address = call.address /\ res.value = call.values[1]
           THEN Success(<<>>) ELSE InvalidResponse("Malformed response")
      [] call.op \in {"write_multiple_coils", "write_multiple_holding_registers"} ->
           LET res == WriteMultipleResponseDecode(sent.value) IN
           IF res.ok /\ res.address = call.address /\ res.length = Len(call.values)
           THEN Success(<<>>) ELSE InvalidResponse("Malformed response")
      [] call.op = "mask_write_holding_registers" ->
           LET res == MaskWriteHoldingRegisterRequestDecode(sent.value) IN
           IF res.ok /\ res.address = call.address /\ res.and_mask = call.values[1]
              /\ res.or_mask = call.values[2]
           THEN Success(<<>>) ELSE InvalidResponse("Malformed response")
      [] call.op = "modbus_encapsulated_interface" -> ClientMeiFinish(call.address, sent)

(***************************************************************************)
(* State.                                                                  *)
(***************************************************************************)
VARIABLES
    \* ModbusTCPClient
    transaction_id,     \* the AtomicU16 counter
    response_map,       \* transaction id -> caller whose Sender it holds, 0: no entry
    reader,             \* the receive_response task: [state, error]
    writer_shutdown,    \* the connection's write half was shut down
    sent,               \* the frame each caller wrote to the connection, as bytes
    peer,               \* requests the peer received and has not answered: [msg, from]
    \* one caller of a client operation each
    pc,                 \* "idle", "insert", "write", "await", "done", "panicked",
                        \* "cancelled"
    call,               \* the operation and its arguments
    tid,                \* the transaction id send_request fetched, -1: none
    slot,               \* the caller's one-shot channel
    result,             \* what the operation returned
    \* history of the client, read by the properties only
    late,               \* the caller called after the reader had failed
    id_shared,          \* history: the caller's id was also the id of another
                        \* request in progress or not yet answered by the peer
    pending_at_exit,    \* the callers with an entry in the map when the reader exited
    \* the server
    max_concurrent_connections,   \* what the handler's method of that name returns
    max_concurrent_requests,      \* what the handler's method of that name returns
    build,              \* "debug" (overflow checks) or "release" (wrapping)
    connection_count,   \* the counter run() shares with the connection tasks
    connection,         \* per peer: [state, accept_called, messages_read, pump]
    limiter,            \* per connection: the permits its semaphore has left
    task,               \* per connection and message: the handler task
    h,                  \* the handler's tables: [coils, holding_registers, device_info]
    \* one call of read_device_identification on a client of that server
    rdi,                \* [state, more_follows, next_object_id, iterations, result, outcome]
    \* one value on its way through the codec
    codec,              \* [state, kind, value, encoded, decoded]
    \* one Connection (connection.rs), byte by byte
    writer,             \* the Mutex of the write half: the call that holds it, 0: free
    wire,               \* the bytes the write half has put on the wire
    wire_broken,        \* a write failed with an IO error
    write_call,         \* per call of write_message: [pc, bytes, pos]
    read_buffer,        \* the BytesMut read_message decodes from
    read_pc,            \* read_message: "decode", "read", "closed", "failed"
    shutdown_called,    \* read_message shut the write half down
    read_results,       \* history: what the calls of read_message returned, in order
    chunks,             \* history: the number of bytes each read_buf brought
    \* the peer of that Connection
    inbound,            \* bytes the peer sent that no read_buf has taken yet
    peer_closed,        \* the peer closed its side: EOF follows the bytes
    peer_sent           \* history: the frames the peer sent, in order

clientVars == <<transaction_id, response_map, reader, writer_shutdown, sent, peer,
                pc, call, tid, slot, result, late, id_shared, pending_at_exit>>

serverVars == <<max_concurrent_connections, max_concurrent_requests, build,
                connection_count, connection, limiter, task, h>>

writeVars == <<writer, wire, wire_broken, write_call>>

readVars == <<read_buffer, read_pc, shutdown_called, read_results, chunks, inbound,
              peer_closed, peer_sent>>

connVars == <<writeVars, readVars>>

vars == <<clientVars, serverVars, rdi, codec, connVars>>

Callers == 1..MaxCallers
TidSpace == 0..(TidModulus - 1)

NoCall == Call("none", 0, 0, 0, <<>>)
SlotNone == [state |-> "none"]
SlotEmpty == [state |-> "empty"]
SlotClosed == [state |-> "closed"]
SlotDropped == [state |-> "dropped"]
SlotOk(item) == [state |-> "ok", item |-> item]
SlotErr(error) == [state |-> "err", error |-> error]

\* The device a peer of the client model answers as: the fresh in-memory device.
FreshDevice ==
    [coils |-> EmptyMap, holding_registers |-> EmptyMap,
     device_info |-> DeviceIdentification(<<>>, <<>>, <<>>, None, None, None, None, EmptyMap)]

\* Connection::new: nothing written, the locks free, no call in progress.
ConnectionFresh ==
    /\ writer = 0
    /\ wire = <<>>
    /\ wire_broken = FALSE
    /\ write_call = [w \in Callers |-> [pc |-> "idle"]]
    /\ read_buffer = <<>>
    /\ read_pc = "decode"
    /\ shutdown_called = FALSE
    /\ read_results = <<>>
    /\ chunks = <<>>
    /\ inbound = <<>>
    /\ peer_closed = FALSE
    /\ peer_sent = <<>>

\* No server runs beside the client.
ServerIdle ==
    /\ max_concurrent_connections = 0
    /\ max_concurrent_requests = 0
    /\ build = "release"
    /\ connection_count = 0
    /\ connection = <<>>
    /\ limiter = <<>>
    /\ task = <<>>
    /\ h = FreshDevice
    /\ rdi = [state |-> "idle"]
    /\ codec = [state |-> "idle"]
    /\ ConnectionFresh

\* ModbusTCPClient::new: counter 0, empty map, reader task spawned.
ClientFresh ==
    /\ transaction_id = 0
    /\ response_map = [t \in TidSpace |-> 0]
    /\ reader = [state |-> "running"]
    /\ writer_shutdown = FALSE
    /\ sent = [c \in Callers |-> <<>>]
    /\ peer = {}
    /\ pc = [c \in Callers |-> "idle"]
    /\ call = [c \in Callers |-> NoCall]
    /\ tid = [c \in Callers |-> -1]
    /\ slot = [c \in Callers |-> SlotNone]
    /\ result = [c \in Callers |-> NoResult]
    /\ late = [c \in Callers |-> FALSE]
    /\ id_shared = [c \in Callers |-> FALSE]
    /\ pending_at_exit = {}

ClientInit == ClientFresh /\ ServerIdle

(***************************************************************************)
(* A caller: a public operation and send_request, one action per           *)
(* suspension point.                                                       *)
(***************************************************************************)
\* transaction_id.fetch_add(1, Relaxed): the counter wraps.
FetchAdd(v) == (v + 1) % TidModulus

\* The caller is inside send_request.
InProgress(c) == pc[c] \in {"insert", "write", "await"}

\* The operation starts: validate_input, then send_request up to its first
\* suspension point (the lock of the pending map): the id is fetched and the
\* one-shot channel created.
ClientCall(c, a) ==
    /\ UNCHANGED <<serverVars, rdi, codec, connVars>>
    /\ pc[c] = "idle"
    /\ \A d \in Callers : d < c => pc[d] # "idle"    \* callers are numbered as they call
    /\ call' = [call EXCEPT ![c] = a]
    /\ late' = [late EXCEPT ![c] = (reader.state = "failed")]
    /\ IF ~OpValidate(a)
       THEN /\ pc' = [pc EXCEPT ![c] = "done"]
            /\ result' = [result EXCEPT ![c] = ArgumentsOutOfRange]
            /\ UNCHANGED <<transaction_id, tid, slot, id_shared>>
       ELSE /\ tid' = [tid EXCEPT ![c] = transaction_id]
            /\ id_shared' = [d \in Callers |->
                  IF d = c
                  THEN \/ \E e \in Callers : tid[e] = transaction_id /\ InProgress(e)
                       \/ \E p \in peer : p.msg.transaction_id = transaction_id
                  ELSE id_shared[d] \/ (tid[d] = transaction_id /\ InProgress(d))]
            /\ transaction_id' = FetchAdd(transaction_id)
            /\ slot' = [slot EXCEPT ![c] = SlotEmpty]
            /\ pc' = [pc EXCEPT ![c] = "insert"]
            /\ UNCHANGED result
    /\ UNCHANGED <<response_map, reader, writer_shutdown, sent, peer, pending_at_exit>>

\* map.insert(transaction_id, sender): a Sender already under the id is
\* dropped, which closes its channel.
ClientInsert(c) ==
    /\ UNCHANGED <<serverVars, rdi, codec, connVars>>
    /\ pc[c] = "insert"
    /\ LET old == response_map[tid[c]] IN
       /\ response_map' = [response_map EXCEPT ![tid[c]] = c]
       /\ slot' = IF old # 0 /\ slot[old].state = "empty"
                  THEN [slot EXCEPT ![old] = SlotClosed] ELSE slot
    /\ pc' = [pc EXCEPT ![c] = "write"]
    /\ UNCHANGED <<transaction_id, reader, writer_shutdown, sent, peer, call, tid,
                   result, late, id_shared, pending_at_exit>>

\* connection.write_message(&msg): the frame reaches the peer, or the write
\* fails and send_request returns IO (its Receiver is dropped, its entry stays).
ClientWrite(c, io_ok) ==
    /\ UNCHANGED <<serverVars, rdi, codec, connVars>>
    /\ pc[c] = "write"
    /\ io_ok => ~writer_shutdown
    /\ LET msg == RequestMessage(tid[c], call[c])
           enc == MessageEncode(msg)
       IN IF ~enc.ok
          THEN /\ result' = [result EXCEPT ![c] = ArgumentsOutOfRange]
               /\ pc' = [pc EXCEPT ![c] = "done"]
               /\ slot' = [slot EXCEPT ![c] = SlotDropped]
               /\ UNCHANGED <<sent, peer>>
          ELSE IF io_ok
          THEN /\ sent' = [sent EXCEPT ![c] = enc.bytes]
               /\ peer' = peer \cup {[msg |-> msg, from |-> c]}
               /\ pc' = [pc EXCEPT ![c] = "await"]
               /\ UNCHANGED <<result, slot>>
          ELSE /\ result' = [result EXCEPT ![c] = IOError]
               /\ pc' = [pc EXCEPT ![c] = "done"]
               /\ slot' = [slot EXCEPT ![c] = IF slot[c].state = "empty"
                                              THEN SlotDropped ELSE slot[c]]
               /\ UNCHANGED <<sent, peer>>
    /\ UNCHANGED <<transaction_id, response_map, reader, writer_shutdown, call, tid,
                   late, id_shared, pending_at_exit>>

\* receiver.await.unwrap() and the rest of the operation.
ClientComplete(c) ==
    /\ UNCHANGED <<serverVars, rdi, codec, connVars>>
    /\ pc[c] = "await"
    /\ slot[c].state \in {"ok", "err", "closed"}
    /\ CASE slot[c].state = "closed" ->
              /\ pc' = [pc EXCEPT ![c] = "panicked"]
              /\ UNCHANGED result
         [] slot[c].state = "err" ->
              /\ pc' = [pc EXCEPT ![c] = "done"]
              /\ result' = [result EXCEPT ![c] = slot[c].error]
         [] slot[c].state = "ok" ->
              /\ pc' = [pc EXCEPT ![c] = "done"]
              /\ result' = [result EXCEPT ![c] =
                    OpFinish(call[c], CheckResponse(RequestMessage(tid[c], call[c]),
                                                    slot[c].item.msg))]
    /\ UNCHANGED <<transaction_id, response_map, reader, writer_shutdown, sent, peer,
                   call, tid, slot, late, id_shared, pending_at_exit>>

\* The caller drops the operation's future at one of send_request's
\* suspension points: the Receiver goes with it, together with a response
\* that was sent and not taken yet. Nothing is removed from the pending map,
\* and a request cancelled before its write does not reach the peer.
ClientCancel(c) ==
    /\ UNCHANGED <<serverVars, rdi, codec, connVars>>
    /\ InProgress(c)
    /\ pc' = [pc EXCEPT ![c] = "cancelled"]
    /\ slot' = [slot EXCEPT ![c] = SlotDropped]
    /\ UNCHANGED <<transaction_id, response_map, reader, writer_shutdown, sent, peer,
                   call, tid, result, late, id_shared, pending_at_exit>>

(***************************************************************************)
(* The reader task (receive_response).                                     *)
(***************************************************************************)
\* A lookup that takes the oldest pending entry, whatever its id.
LookupSenderFirstPending(map, id) ==
    IF \E t \in DOMAIN map : map[t] # 0
    THEN map[MinOf({t \in DOMAIN map : map[t] # 0})]
    ELSE 0

\* response_map.remove(&msg.transaction_id): the caller whose Sender is found.
LookupSender(map, id) == map[id]

PendingCallers == {response_map[t] : t \in TidSpace} \ {0}

\* The frame the peer answers a request with: the server's response message.
PeerReply(msg) == ResponseMessage(msg, HandleRequest(msg, FreshDevice, "release").result)

\* A frame no request asked for.
Unsolicited(t) == Message(t, 0, 0, FC_ReadCoils, <<1, 0>>)

\* A reader that unwraps the result of sender.send: a Receiver that is gone
\* ends the task.
ReaderHandleUnwrapSend(item) ==
    LET owner == LookupSender(response_map, item.msg.transaction_id) IN
    IF owner = 0 \/ slot[owner].state # "empty"
    THEN /\ reader' = [state |-> "failed",
                       error |-> InvalidResponse("The server sent an unexpected response")]
         /\ pending_at_exit' = {c \in PendingCallers : slot[c].state = "empty"}
         /\ UNCHANGED <<response_map, slot>>
    ELSE /\ response_map' = [response_map EXCEPT ![item.msg.transaction_id] = 0]
         /\ slot' = [slot EXCEPT ![owner] = SlotOk(item)]
         /\ UNCHANGED <<reader, pending_at_exit>>

\* A reader that hands a frame without an entry to the oldest pending caller.
ReaderHandleStrayToPending(item) ==
    LET found == LookupSender(response_map, item.msg.transaction_id)
        id == IF found # 0 \/ PendingCallers = {} THEN item.msg.transaction_id
              ELSE MinOf({t \in TidSpace : response_map[t] # 0})
        owner == response_map[id]
    IN
    IF owner = 0
    THEN /\ reader' = [state |-> "failed",
                       error |-> InvalidResponse("The server sent an unexpected response")]
         /\ pending_at_exit' = {c \in PendingCallers : slot[c].state = "empty"}
         /\ UNCHANGED <<response_map, slot>>
    ELSE /\ response_map' = [response_map EXCEPT ![id] = 0]
         /\ slot' = IF slot[owner].state = "empty"
                    THEN [slot EXCEPT ![owner] = SlotOk(item)] ELSE slot
         /\ UNCHANGED <<reader, pending_at_exit>>

\* read_message returned Ok(Some(msg)); item is the frame and the caller whose
\* request it answers (0: none).
ReaderHandle(item) ==
    LET owner == LookupSender(response_map, item.msg.transaction_id) IN
    IF owner = 0
    THEN /\ reader' = [state |-> "failed",
                       error |-> InvalidResponse("The server sent an unexpected response")]
         /\ pending_at_exit' = {c \in PendingCallers : slot[c].state = "empty"}
         /\ UNCHANGED <<response_map, slot>>
    ELSE /\ response_map' = [response_map EXCEPT ![item.msg.transaction_id] = 0]
         /\ slot' = IF slot[owner].state = "empty"
                    THEN [slot EXCEPT ![owner] = SlotOk(item)] ELSE slot
         /\ UNCHANGED <<reader, pending_at_exit>>

\* The peer answers one of the requests it received and the reader reads it.
ReaderReply(p) ==
    /\ UNCHANGED <<serverVars, rdi, codec, connVars>>
    /\ reader.state = "running"
    /\ p \in peer
    /\ peer' = peer \ {p}
    /\ ReaderHandle([msg |-> PeerReply(p.msg), answers |-> p.from])
    /\ UNCHANGED <<transaction_id, writer_shutdown, sent, pc, call, tid, result, late,
                   id_shared>>

\* The peer sends a frame nobody asked for and the reader reads it.
ReaderUnsolicited(t) ==
    /\ UNCHANGED <<serverVars, rdi, codec, connVars>>
    /\ reader.state = "running"
    /\ ReaderHandle([msg |-> Unsolicited(t), answers |-> 0])
    /\ UNCHANGED <<transaction_id, writer_shutdown, sent, peer, pc, call, tid, result,
                   late, id_shared>>

\* The peer answers one of the requests it received with a frame of its own
\* making under the request's transaction id, and the reader reads it.
ReaderAnswer(p, protocol_id, unit_id, function_code, body) ==
    /\ UNCHANGED <<serverVars, rdi, codec, connVars>>
    /\ reader.state = "running"
    /\ p \in peer
    /\ peer' = peer \ {p}
    /\ ReaderHandle([msg |-> Message(p.msg.transaction_id, protocol_id, unit_id,
                                     function_code, body),
                     answers |-> p.from])
    /\ UNCHANGED <<transaction_id, writer_shutdown, sent, pc, call, tid, result, late,
                   id_shared>>

\* read_message returned Err: an IO error, or bytes that are no frame. The
\* map is drained, the error sent to every Sender.
ReaderFail(kind) ==
    /\ UNCHANGED <<serverVars, rdi, codec, connVars>>
    /\ reader.state = "running"
    /\ LET error == IF kind = "IO" THEN IOError
                    ELSE InvalidResponse("The server sent invalid data")
       IN /\ slot' = [c \in Callers |->
                        IF c \in PendingCallers /\ slot[c].state = "empty"
                        THEN SlotErr(error) ELSE slot[c]]
          /\ reader' = [state |-> "failed", error |-> error]
    /\ response_map' = [t \in TidSpace |-> 0]
    /\ pending_at_exit' = {c \in PendingCallers : slot[c].state = "empty"}
    /\ UNCHANGED <<transaction_id, writer_shutdown, sent, peer, pc, call, tid, result,
                   late, id_shared>>

\* read_message returned Ok(None): the peer closed; the write half is shut
\* down and the task returns Ok(()).
ReaderEof ==
    /\ UNCHANGED <<serverVars, rdi, codec, connVars>>
    /\ reader.state = "running"
    /\ reader' = [state |-> "closed"]
    /\ writer_shutdown' = TRUE
    /\ pending_at_exit' = {c \in PendingCallers : slot[c].state = "empty"}
    /\ UNCHANGED <<transaction_id, response_map, sent, peer, pc, call, tid, slot,
                   result, late, id_shared>>

(***************************************************************************)
(* The multiplexer: MaxCallers callers pipelining on one client.           *)
(***************************************************************************)
ClientCallPool ==
    {Call("read_coils", 0, 0, 10, <<>>)}

ClientNext ==
    \/ \E c \in Callers, a \in ClientCallPool : ClientCall(c, a)
    \/ \E c \in Callers : ClientInsert(c)
    \/ \E c \in Callers, io_ok \in BOOLEAN : ClientWrite(c, io_ok)
    \/ \E c \in Callers : ClientComplete(c)
    \/ \E p \in peer : ReaderReply(p)
    \/ \E t \in TidSpace : ReaderUnsolicited(t)
    \/ \E kind \in {"IO", "Decode"} : ReaderFail(kind)
    \/ ReaderEof

SpecClient == ClientInit /\ [][ClientNext]_vars

\* The same with callers that drop their operation.
CancellationNext ==
    \/ ClientNext
    \/ \E c \in Callers : ClientCancel(c)

SpecCancellation == ClientInit /\ [][CancellationNext]_vars

(***************************************************************************)
(* The length policy: two callers, each with any operation that validates  *)
(* its arguments, at the boundaries of the policy.                         *)
(***************************************************************************)
\* The values of a multiple write of `length` values.
ValuesFor(op, length) ==
    CASE op = "write_multiple_coils" -> [i \in 1..length |-> (IF i % 3 = 0 THEN 1 ELSE 0)]
      [] op = "write_multiple_holding_registers" -> [i \in 1..length |-> i]
      [] OTHER -> <<>>

LengthPolicyPool ==
    UNION {{Call(op, 1, address, length, ValuesFor(op, length)) :
                address \in {0, 65535},
                length \in {0, 1, 2, OpMaxLen(op), OpMaxLen(op) + 1}} :
           op \in ValidatedOps}

LengthPolicyCallers == {1, 2}

LengthPolicyNext ==
    \/ \E c \in LengthPolicyCallers, a \in LengthPolicyPool : ClientCall(c, a)
    \/ \E c \in Callers : ClientInsert(c)
    \/ \E c \in Callers, io_ok \in BOOLEAN : ClientWrite(c, io_ok)
    \/ \E c \in Callers : ClientComplete(c)
    \/ \E p \in peer : ReaderReply(p)

SpecLengthPolicy == ClientInit /\ [][LengthPolicyNext]_vars

(***************************************************************************)
(* The server (server.rs): run() admits connections under the shared       *)
(* counter; process() reads messages and spawns one handler task per       *)
(* message under the connection's semaphore.                               *)
(***************************************************************************)
Conns == 1..MaxConnections
TaskIds == Conns \X (1..MaxMessages)

\* Semaphore::MAX_PERMITS is usize::MAX >> 3: the value of a 32-bit target
\* (2^61 - 1 on a 64-bit one).
MAX_PERMITS == 536870911

\* History: count_on_arrival is the counter's value when run() tested it,
\* disconnected_calls the calls of disconnected(addr) and decrements the
\* decrements of the counter by the connection's task.
NoConnection == [state |-> "none", accept_called |-> FALSE, messages_read |-> 0,
                 pump |-> [at |-> "read"], count_on_arrival |-> -1,
                 disconnected_calls |-> 0, decrements |-> 0]
NoTask == [pc |-> "none"]

\* A limiter of max_concurrent_requests + 1 permits.
PermitsOneMore(n) == IF n = 0 THEN MAX_PERMITS ELSE n + 1

\* The permits process() creates its semaphore with.
Permits(n) == IF n = 0 THEN MAX_PERMITS ELSE n

\* An admission test that lets the counter pass the limit by one.
AtLimitStrict(cnt, max_connections) == cnt > max_connections

\* run(): `*cnt >= max_connections`
AtLimit(cnt, max_connections) == cnt >= max_connections

\* The server started by run() with a fresh device, before any peer connects.
ServerInit(connection_limits, request_limits, builds, devices) ==
    /\ max_concurrent_connections \in connection_limits
    /\ max_concurrent_requests \in request_limits
    /\ build \in builds
    /\ connection_count = 0
    /\ connection = [k \in Conns |-> NoConnection]
    /\ limiter = [k \in Conns |-> 0]
    /\ task = [t \in TaskIds |-> NoTask]
    /\ h \in {[FreshDevice EXCEPT !.device_info = d] : d \in devices}
    /\ rdi = [state |-> "idle"]
    /\ codec = [state |-> "idle"]
    /\ ConnectionFresh

\* One turn of run()'s loop for the peer k that connected: the counter's
\* lock is held from the test to the increment, across accept_connection.
\* accepts is what accept_connection answers when it is asked.
Accept(k, accepts) ==
    /\ UNCHANGED <<clientVars, rdi, codec, connVars>>
    /\ connection[k].state = "none"
    /\ \A j \in Conns : j < k => connection[j].state # "none"   \* numbered as they arrive
    /\ IF AtLimit(connection_count, max_concurrent_connections)
       THEN /\ connection' = [connection EXCEPT ![k].state = "dropped",
                                                ![k].count_on_arrival = connection_count]
            /\ UNCHANGED <<connection_count, limiter>>
       ELSE IF ~accepts
       THEN /\ connection' = [connection EXCEPT ![k].state = "refused",
                                                ![k].accept_called = TRUE,
                                                ![k].count_on_arrival = connection_count]
            /\ UNCHANGED <<connection_count, limiter>>
       ELSE /\ connection_count' = connection_count + 1
            /\ connection' = [connection EXCEPT ![k].state = "live",
                                                ![k].accept_called = TRUE,
                                                ![k].count_on_arrival = connection_count]
            /\ limiter' = [limiter EXCEPT ![k] = Permits(max_concurrent_requests)]
    /\ UNCHANGED <<max_concurrent_connections, max_concurrent_requests, build, task, h>>

\* process(): read_message returned Ok(Some(msg)); the loop goes on to
\* acquire a permit.
PumpRead(k, msg, max_messages) ==
    /\ UNCHANGED <<clientVars, rdi, codec, connVars>>
    /\ connection[k].state = "live"
    /\ connection[k].pump.at = "read"
    /\ connection[k].messages_read < max_messages
    /\ connection' = [connection EXCEPT
            ![k].messages_read = @ + 1,
            ![k].pump = [at |-> "acquire", msg |-> msg]]
    /\ UNCHANGED <<max_concurrent_connections, max_concurrent_requests, build,
                   connection_count, limiter, task, h>>

\* process(): acquire_owned returned; the handler task is spawned with the
\* permit and the loop reads again.
PumpAcquire(k) ==
    /\ UNCHANGED <<clientVars, rdi, codec, connVars>>
    /\ connection[k].state = "live"
    /\ connection[k].pump.at = "acquire"
    /\ limiter[k] > 0
    /\ limiter' = [limiter EXCEPT ![k] = @ - 1]
    /\ task' = [task EXCEPT ![<<k, connection[k].messages_read>>] =
                    [pc |-> "hook1", msg |-> connection[k].pump.msg]]
    /\ connection' = [connection EXCEPT ![k].pump = [at |-> "read"]]
    /\ UNCHANGED <<max_concurrent_connections, max_concurrent_requests, build,
                   connection_count, h>>

\* process(): read_message returned Ok(None) or Err: the loop ends and
\* process returns.
PumpEnd(k) ==
    /\ UNCHANGED <<clientVars, rdi, codec, connVars>>
    /\ connection[k].state = "live"
    /\ connection[k].pump.at = "read"
    /\ connection' = [connection EXCEPT ![k].state = "disconnecting",
                                        ![k].pump = [at |-> "exited"]]
    /\ UNCHANGED <<max_concurrent_connections, max_concurrent_requests, build,
                   connection_count, limiter, task, h>>

\* The connection task after process() returned: handler.disconnected(addr).
Disconnected(k) ==
    /\ UNCHANGED <<clientVars, rdi, codec, connVars>>
    /\ connection[k].state = "disconnecting"
    /\ connection' = [connection EXCEPT ![k].state = "decrementing",
                                        ![k].disconnected_calls = @ + 1]
    /\ UNCHANGED <<max_concurrent_connections, max_concurrent_requests, build,
                   connection_count, limiter, task, h>>

\* A connection task that ends without touching the counter.
DisconnectWithoutDecrement(k) ==
    /\ UNCHANGED <<clientVars, rdi, codec, connVars>>
    /\ connection[k].state = "decrementing"
    /\ connection' = [connection EXCEPT ![k].state = "finished"]
    /\ UNCHANGED <<max_concurrent_connections, max_concurrent_requests, build,
                   connection_count, limiter, task, h>>

\* The connection task after disconnected() returned: the counter is locked
\* and decremented, and the task ends.
Disconnect(k) ==
    /\ UNCHANGED <<clientVars, rdi, codec, connVars>>
    /\ connection[k].state = "decrementing"
    /\ connection_count' = Max(connection_count - 1, 0)
    /\ connection' = [connection EXCEPT ![k].state = "finished",
                                        ![k].decrements = @ + 1]
    /\ UNCHANGED <<max_concurrent_connections, max_concurrent_requests, build,
                   limiter, task, h>>

\* The handler task runs handle_request up to and including its first hook
\* (fault: the exception that hook fails with, 0 for none).  A panic unwinds
\* the task, which drops its permit.
TaskHook1(t, fault) ==
    /\ UNCHANGED <<clientVars, rdi, codec, connVars>>
    /\ task[t].pc = "hook1"
    /\ LET s == HandleRequest1(task[t].msg, h, fault, build) IN
       /\ h' = s.h
       /\ IF s.next = "panic"
          THEN /\ task' = [task EXCEPT ![t].pc = "panicked"]
               /\ limiter' = [limiter EXCEPT ![t[1]] = @ + 1]
          ELSE /\ task' = [task EXCEPT ![t] =
                     [pc |-> s.next, msg |-> task[t].msg, result |-> s.result,
                      current_value |-> s.current_value]]
               /\ UNCHANGED limiter
    /\ UNCHANGED <<max_concurrent_connections, max_concurrent_requests, build,
                   connection_count, connection>>

\* The handler task of a mask write runs its second hook, the store.
\* old is the register's value immediately before the store.
TaskHook2(t, fault) ==
    /\ UNCHANGED <<clientVars, rdi, codec, connVars>>
    /\ task[t].pc = "hook2"
    /\ LET s == HandleRequest2(task[t].msg, task[t].current_value, h, fault)
           req == MaskWriteHoldingRegisterRequestDecode(task[t].msg.body)
       IN /\ h' = s.h
          /\ task' = [task EXCEPT ![t] =
                [pc |-> "write", msg |-> task[t].msg, result |-> s.result,
                 current_value |-> task[t].current_value,
                 old |-> HoldingAt(h.holding_registers, req.address),
                 stored |-> HoldingAt(s.h.holding_registers, req.address)]]
    /\ UNCHANGED <<max_concurrent_connections, max_concurrent_requests, build,
                   connection_count, connection, limiter>>

\* The handler task builds the response message and writes it; a failed
\* write is ignored.
TaskWrite(t) ==
    /\ UNCHANGED <<clientVars, rdi, codec, connVars>>
    /\ task[t].pc = "write"
    /\ task' = [task EXCEPT ![t] =
            [f \in (DOMAIN task[t]) \cup {"res_msg"} |->
                CASE f = "pc" -> "release"
                  [] f = "res_msg" -> ResponseMessage(task[t].msg, task[t].result)
                  [] OTHER -> task[t][f]]]
    /\ UNCHANGED <<max_concurrent_connections, max_concurrent_requests, build,
                   connection_count, connection, limiter, h>>

\* A write failure that ends the connection from inside the handler task.
TaskWriteFailedEndsConnection(t) ==
    /\ UNCHANGED <<clientVars, rdi, codec, connVars>>
    /\ task[t].pc = "write"
    /\ task' = [task EXCEPT ![t] =
            [f \in (DOMAIN task[t]) \cup {"res_msg", "write_failed"} |->
                CASE f = "pc" -> "release"
                  [] f = "res_msg" -> ResponseMessage(task[t].msg, task[t].result)
                  [] f = "write_failed" -> TRUE
                  [] OTHER -> task[t][f]]]
    /\ connection' = [connection EXCEPT ![t[1]].state = "disconnecting",
                                        ![t[1]].pump = [at |-> "exited"]]
    /\ UNCHANGED <<max_concurrent_connections, max_concurrent_requests, build,
                   connection_count, limiter, h>>

\* The handler task builds the response message and write_message returns
\* an error, which the task drops (`_ = ...`) before it goes on to release
\* its permit.
TaskWriteFailed(t) ==
    /\ UNCHANGED <<clientVars, rdi, codec, connVars>>
    /\ task[t].pc = "write"
    /\ task' = [task EXCEPT ![t] =
            [f \in (DOMAIN task[t]) \cup {"res_msg", "write_failed"} |->
                CASE f = "pc" -> "release"
                  [] f = "res_msg" -> ResponseMessage(task[t].msg, task[t].result)
                  [] f = "write_failed" -> TRUE
                  [] OTHER -> task[t][f]]]
    /\ UNCHANGED <<max_concurrent_connections, max_concurrent_requests, build,
                   connection_count, connection, limiter, h>>

\* drop(permit): the handler task ends.
TaskRelease(t) ==
    /\ UNCHANGED <<clientVars, rdi, codec, connVars>>
    /\ task[t].pc = "release"
    /\ task' = [task EXCEPT ![t].pc = "done"]
    /\ limiter' = [limiter EXCEPT ![t[1]] = @ + 1]
    /\ UNCHANGED <<max_concurrent_connections, max_concurrent_requests, build,
                   connection_count, connection, h>>

(***************************************************************************)
(* Admission: MaxConnections peers connect to a server that admits one or  *)
(* two; an admitted peer sends at most one request.                        *)
(***************************************************************************)
AdmissionPool ==
    {Message(1, 0, 1, FC_ReadHoldingRegisters, ReadRequestEncode(100, 1))}

AdmissionInit == ClientFresh /\ ServerInit({1, 2}, {1}, {"release"}, {FreshDevice.device_info})

AdmissionNext ==
    \/ \E k \in Conns, accepts \in BOOLEAN : Accept(k, accepts)
    \/ \E k \in Conns, msg \in AdmissionPool : PumpRead(k, msg, 1)
    \/ \E k \in Conns : PumpAcquire(k)
    \/ \E k \in Conns : PumpEnd(k)
    \/ \E k \in Conns : Disconnected(k)
    \/ \E k \in Conns : Disconnect(k)
    \/ \E t \in TaskIds : TaskHook1(t, 0)
    \/ \E t \in TaskIds : TaskWrite(t)
    \/ \E t \in TaskIds : TaskRelease(t)

SpecAdmission == AdmissionInit /\ [][AdmissionNext]_vars

\* The same with the scheduling of a connection's task: once process() has
\* returned the task runs on, its hook returns and the counter's lock is
\* granted.
SpecLifecycle ==
    /\ AdmissionInit
    /\ [][AdmissionNext]_vars
    /\ \A k \in Conns : WF_vars(Disconnected(k)) /\ WF_vars(Disconnect(k))

(***************************************************************************)
(* Requests in flight: one connection with up to MaxMessages requests on   *)
(* holding register 100 (a mask write or a single write each) and a second *)
(* connection with one mask write on the same register, under a limit of   *)
(* 0, 1 or 2 concurrent requests.                                          *)
(***************************************************************************)
RequestConns == {1, 2}

RequestPool ==
    {Message(1, 0, 1, FC_MaskWriteHoldingRegister,
             MaskWriteHoldingRegisterRequestEncode(100, 65534, 1)),
     Message(3, 0, 1, FC_WriteSingleHoldingRegister,
             WriteSingleHoldingRegisterRequestEncode(100, 240))}

OtherMaskWrite ==
    Message(2, 0, 1, FC_MaskWriteHoldingRegister,
            MaskWriteHoldingRegisterRequestEncode(100, 255, 4096))

RequestsInit == ClientFresh /\ ServerInit({2}, {0, 1, 2}, {"release"}, {FreshDevice.device_info})

RequestsNext ==
    \/ \E k \in RequestConns : Accept(k, TRUE)
    \/ \E msg \in RequestPool : PumpRead(1, msg, MaxMessages)
    \/ PumpRead(2, OtherMaskWrite, 1)
    \/ \E k \in RequestConns : PumpAcquire(k)
    \/ \E t \in TaskIds : TaskHook1(t, 0)
    \/ \E t \in TaskIds : TaskHook2(t, 0)
    \/ \E t \in TaskIds : TaskWrite(t)
    \/ \E t \in TaskIds : TaskRelease(t)

SpecRequests == RequestsInit /\ [][RequestsNext]_vars

(***************************************************************************)
(* Framing: one connection, one request with any function code and body of *)
(* the pool, hooks that succeed or fail with an exception.                 *)
(***************************************************************************)
FramingFunctionCodes ==
    {FC_ReadCoils, FC_ReadHoldingRegisters, FC_WriteSingleCoil, FC_WriteMultipleCoils,
     FC_WriteMultipleHoldingRegisters, FC_MaskWriteHoldingRegister,
     FC_ModbusEncapsulatedInterface, 0, 65, 129, 144, 255}

FramingBodies ==
    {<<>>,
     ReadRequestEncode(0, 1),
     ReadRequestEncode(0, 0),
     ReadRequestEncode(65535, 2),
     MaskWriteHoldingRegisterRequestEncode(100, 65534, 1),
     ModbusEncapsulatedInterfaceEncode(MEI_ReadDeviceIdentification,
         ReadDeviceIdentificationRequestEncode(RDI_Basic, 0)),
     ModbusEncapsulatedInterfaceEncode(MEI_ReadDeviceIdentification,
         ReadDeviceIdentificationRequestEncode(RDI_Extended, 9)),
     ModbusEncapsulatedInterfaceEncode(13, <<0>>)}

FramingPool ==
    {Message(0, 0, 0, fc, body) : fc \in FramingFunctionCodes, body \in FramingBodies}
    \cup {Message(4660, 7, 255, fc, body) : fc \in FramingFunctionCodes, body \in FramingBodies}

\* What a hook answers: 0 for success, or the exception it fails with.
FramingFaults == {0, EX_IllegalDataAddress, EX_ServerDeviceFailure, 255}

FramingInit == ClientFresh /\ ServerInit({1}, {1}, {"debug", "release"}, {FreshDevice.device_info})

FramingNext ==
    \/ Accept(1, TRUE)
    \/ \E msg \in FramingPool : PumpRead(1, msg, 1)
    \/ PumpAcquire(1)
    \/ \E t \in TaskIds, fault \in FramingFaults : TaskHook1(t, fault)
    \/ \E t \in TaskIds, fault \in FramingFaults : TaskHook2(t, fault)
    \/ \E t \in TaskIds : TaskWrite(t)
    \/ \E t \in TaskIds : TaskRelease(t)

SpecFraming == FramingInit /\ [][FramingNext]_vars

(***************************************************************************)
(* Containment: one connection with up to MaxMessages requests, each of    *)
(* which may end in an exception of any origin (a body that does not       *)
(* decode, arguments that fail validation, a hook that fails, a response   *)
(* that does not encode, a function the server does not know) or in a      *)
(* write that fails, under a limit of 1 or 2 concurrent requests.          *)
(***************************************************************************)
\* A device with a private object too long for a response to encode.
OverlongObjectDevice ==
    DeviceIdentification(<<86>>, <<80>>, <<49>>, None, None, None, None,
                         (128 :> [i \in 1..256 |-> 65]))

ContainmentPool ==
    {Message(1, 0, 1, FC_ReadHoldingRegisters, ReadRequestEncode(100, 1)),
     Message(2, 0, 1, FC_ReadCoils, <<>>),
     Message(3, 0, 1, FC_ReadCoils, ReadRequestEncode(0, 0)),
     Message(4, 0, 1, 65, <<>>),
     Message(5, 0, 1, FC_MaskWriteHoldingRegister,
             MaskWriteHoldingRegisterRequestEncode(100, 65534, 1)),
     Message(6, 0, 1, FC_ModbusEncapsulatedInterface,
             ModbusEncapsulatedInterfaceEncode(MEI_ReadDeviceIdentification,
                 ReadDeviceIdentificationRequestEncode(RDI_Individual, 128)))}

ContainmentFaults == {0, EX_ServerDeviceFailure}

ContainmentInit ==
    ClientFresh /\ ServerInit({1}, {1, 2}, {"release"}, {OverlongObjectDevice})

ContainmentNext ==
    \/ Accept(1, TRUE)
    \/ \E msg \in ContainmentPool : PumpRead(1, msg, MaxMessages)
    \/ PumpAcquire(1)
    \/ PumpEnd(1)
    \/ \E t \in TaskIds, fault \in ContainmentFaults : TaskHook1(t, fault)
    \/ \E t \in TaskIds, fault \in ContainmentFaults : TaskHook2(t, fault)
    \/ \E t \in TaskIds : TaskWrite(t)
    \/ \E t \in TaskIds : TaskWriteFailed(t)
    \/ \E t \in TaskIds : TaskRelease(t)

SpecContainment == ContainmentInit /\ [][ContainmentNext]_vars

(***************************************************************************)
(* read_device_identification end to end: the client's paging loop against *)
(* a server whose handler advertises one device of DevicePool, one request *)
(* at a time.  Strings are their UTF-8 bytes; the pool has ASCII only.     *)
(***************************************************************************)
\* String::from_utf8_lossy(&data): a byte that is no ASCII (and, in the
\* model, starts no valid sequence) becomes U+FFFD, the bytes EF BF BD; the
\* other bytes are kept.  start(i) is where the image of byte i begins.
from_utf8_lossy(data) ==
    LET invalid == {i \in 1..Len(data) : data[i] >= 128}
        start(i) == i + 2 * Cardinality({j \in invalid : j < i})
        source(k) == CHOOSE i \in 1..Len(data) :
                        start(i) <= k /\ k < start(i) + (IF i \in invalid THEN 3 ELSE 1)
    IN IF invalid = {} THEN [k \in 1..Len(data) |-> data[k]]
       ELSE [k \in 1..(Len(data) + 2 * Cardinality(invalid)) |->
                IF source(k) \in invalid
                THEN <<239, 191, 189>>[k - start(source(k)) + 1]
                ELSE data[source(k)]]

\* The `for (id, data) in res.objects` of the client's loop.
RECURSIVE MergeObjects(_, _, _)
MergeObjects(acc, objects, ids) ==
    IF ids = {} THEN acc ELSE
    LET id == MinOf(ids)
        data == objects[id]
        merged ==
            CASE id = 0 -> [acc EXCEPT !.vendor_name = from_utf8_lossy(data)]
              [] id = 1 -> [acc EXCEPT !.product_code = from_utf8_lossy(data)]
              [] id = 2 -> [acc EXCEPT !.major_minor_revision = from_utf8_lossy(data)]
              [] id = 3 -> [acc EXCEPT !.vendor_url = Some(from_utf8_lossy(data))]
              [] id = 4 -> [acc EXCEPT !.product_name = Some(from_utf8_lossy(data))]
              [] id = 5 -> [acc EXCEPT !.model_name = Some(from_utf8_lossy(data))]
              [] id = 6 -> [acc EXCEPT !.user_application_name = Some(from_utf8_lossy(data))]
              [] OTHER -> [acc EXCEPT !.objects =
                              [x \in (DOMAIN acc.objects) \cup {id} |->
                                  IF x = id THEN data ELSE acc.objects[x]]]
    IN MergeObjects(merged, objects, ids \ {id})

\* read_device_identification is called: the loop's variables.
RdiCall ==
    /\ rdi.state = "idle"
    /\ rdi' = [state |-> "loop", more_follows |-> TRUE, next_object_id |-> 0,
               iterations |-> 0,
               result |-> DeviceIdentification(<<>>, <<>>, <<>>, None, None, None, None,
                                               EmptyMap)]
    /\ UNCHANGED <<clientVars, serverVars, codec, connVars>>

\* The message a request or a response is on the other side of the
\* connection: encoded by write_message, decoded by read_message.
OverTheWire(msg) == MessageDecode(MessageEncode(msg).bytes)

\* One iteration of `for _ in 0..0xFFu8` that does not break: the request
\* for next_object_id crosses the wire, the server's handler task answers it
\* (or panics, and then nothing is ever written back), the answer crosses the
\* wire and the page is merged.
RdiPage(unit_id) ==
    /\ rdi.state = "loop"
    /\ rdi.iterations < U8_MAX
    /\ rdi.more_follows
    /\ \E msg \in {Message(rdi.iterations % TidModulus, 0, unit_id,
                           FC_ModbusEncapsulatedInterface,
                           ModbusEncapsulatedInterfaceEncode(MEI_ReadDeviceIdentification,
                               ReadDeviceIdentificationRequestEncode(RDI_Extended,
                                                                     rdi.next_object_id)))} :
       \E req_msg \in {OverTheWire(msg)} :
       \E s \in {HandleRequest1(req_msg.value, h, 0, build)} :
          IF s.next = "panic"
          THEN rdi' = [rdi EXCEPT !.state = "waiting"]
          ELSE
          \E res_msg \in {OverTheWire(ResponseMessage(req_msg.value, s.result))} :
          \E returned \in {IF ~res_msg.ok
                           THEN InvalidResponse("The server sent invalid data")
                           ELSE CheckResponse(msg, res_msg.value)} :
          \E res_body \in {ClientMeiFinish(MEI_ReadDeviceIdentification, returned)} :
             IF res_body.kind # "Ok"
             THEN rdi' = [state |-> "done", outcome |-> res_body]
             ELSE \E res \in {ReadDeviceIdentificationResponseDecode(res_body.value)} :
                  IF ~res.ok
                  THEN rdi' = [state |-> "done",
                               outcome |-> InvalidResponse("Malformed response")]
                  ELSE rdi' = [rdi EXCEPT
                          !.more_follows = res.more_follows,
                          !.next_object_id = res.next_object_id,
                          !.iterations = @ + 1,
                          !.result = MergeObjects(rdi.result, res.objects,
                                                  DOMAIN res.objects)]
    /\ UNCHANGED <<clientVars, serverVars, codec, connVars>>

\* The loop ends, by its break or after 255 iterations: Ok(result).
RdiReturn ==
    /\ rdi.state = "loop"
    /\ ~rdi.more_follows \/ rdi.iterations >= U8_MAX
    /\ rdi' = [state |-> "done", outcome |-> Success(rdi.result)]
    /\ UNCHANGED <<clientVars, serverVars, codec, connVars>>

\* An object of n bytes.
Filler(n) == [i \in 1..n |-> 65 + (i % 26)]

\* Devices whose last objects do not reach id 255, and two that have an
\* object 255 on a page of its own.
DevicePool ==
    {DeviceIdentification(vendor_name, <<80>>, <<49, 46, 48>>, vendor_url, None,
                          model_name, None, objects) :
        vendor_name \in {<<>>, <<84, 101, 115, 116>>},
        vendor_url \in {None, Some(<<117>>)},
        model_name \in {None, Some(<<109>>)},
        objects \in {EmptyMap,
                     (7 :> <<1, 2>>),
                     (128 :> Filler(200)) @@ (129 :> Filler(200))}}
    \cup
    {DeviceIdentification(<<>>, <<>>, <<>>, None, None, None, None, objects) :
        objects \in {(254 :> Filler(200)) @@ (255 :> Filler(60)),
                     (255 :> Filler(244))}}

PagingInit ==
    ClientFresh /\ ServerInit({1}, {1}, {"debug", "release"}, DevicePool)

PagingNext ==
    \/ RdiCall
    \/ \E unit_id \in {1} : RdiPage(unit_id)
    \/ RdiReturn

SpecPaging == PagingInit /\ [][PagingNext]_vars

(***************************************************************************)
(* read_device_identification against a faulty peer: every request is      *)
(* answered, with a page that has more_follows set, with a last page, with *)
(* an exception, with a frame that is no page, or the connection fails.    *)
(***************************************************************************)
\* The request of the iteration the loop is in.
RdiRequest(unit_id) ==
    Message(rdi.iterations % TidModulus, 0, unit_id, FC_ModbusEncapsulatedInterface,
            ModbusEncapsulatedInterfaceEncode(MEI_ReadDeviceIdentification,
                ReadDeviceIdentificationRequestEncode(RDI_Extended, rdi.next_object_id)))

\* A loop body that carries on after a request that failed.
RdiAfterReplyIgnoringErrors(r, msg, reply) ==
    [f \in (DOMAIN r) \cup {"last_reply"} |->
        CASE f = "last_reply" -> reply
          [] f = "iterations" -> r.iterations + 1
          [] OTHER -> r[f]]

\* The loop body once the peer's reply to msg is in: what send_request
\* returns for it goes through modbus_encapsulated_interface and the decode
\* of the page; an error of either returns from the operation (`?`), a page
\* sets more_follows and next_object_id and is merged.  last_reply is
\* history: the reply of the last request.  reply is
\* [kind |-> "IO"] or the fields of a frame under the request's transaction
\* id, [kind |-> "frame", unit_id, function_code, body].
RdiAfterReply(r, msg, reply) ==
    LET returned == IF reply.kind = "IO" THEN IOError
                    ELSE CheckResponse(msg, Message(msg.transaction_id, 0, reply.unit_id,
                                                    reply.function_code, reply.body))
        res_body == ClientMeiFinish(MEI_ReadDeviceIdentification, returned)
        res == ReadDeviceIdentificationResponseDecode(res_body.value)
        failed(error) == [state |-> "done", outcome |-> error,
                          requests |-> r.iterations + 1, last_reply |-> reply]
    IN IF res_body.kind # "Ok" THEN failed(res_body)
       ELSE IF ~res.ok THEN failed(InvalidResponse("Malformed response"))
       ELSE [f \in (DOMAIN r) \cup {"last_reply"} |->
                CASE f = "last_reply" -> reply
                  [] f = "more_follows" -> res.more_follows
                  [] f = "next_object_id" -> res.next_object_id
                  [] f = "iterations" -> r.iterations + 1
                  [] f = "result" -> MergeObjects(r.result, res.objects, DOMAIN res.objects)
                  [] OTHER -> r[f]]

\* One iteration of `for _ in 0..0xFFu8` that does not break, with the
\* peer's reply.
RdiPageFromPeer(unit_id, reply) ==
    /\ rdi.state = "loop"
    /\ rdi.iterations < U8_MAX
    /\ rdi.more_follows
    /\ rdi' = RdiAfterReply(rdi, RdiRequest(unit_id), reply)
    /\ UNCHANGED <<clientVars, serverVars, codec, connVars>>

\* A page without objects.
EmptyPage(more_follows, next_object_id) ==
    ModbusEncapsulatedInterfaceEncode(MEI_ReadDeviceIdentification,
        ReadDeviceIdentificationResponseEncode(
            [device_id_code |-> RDI_Extended,
             conformity_level |-> CL_ExtendedStreamAndIndividual,
             more_follows |-> more_follows, next_object_id |-> next_object_id,
             objects |-> EmptyMap]).bytes)

FrameReply(unit_id, function_code, body, error) ==
    [kind |-> "frame", unit_id |-> unit_id, function_code |-> function_code,
     body |-> body, error |-> error]

\* What the faulty peer may answer a request of unit 1 with, each with the
\* error that the request ends in (NoResult: none).
FaultyPeerReplies ==
    {FrameReply(1, FC_ModbusEncapsulatedInterface, EmptyPage(TRUE, n), NoResult) : n \in {0, 9}}
    \cup {FrameReply(1, FC_ModbusEncapsulatedInterface, EmptyPage(FALSE, 0), NoResult),
          FrameReply(1, as_err(FC_ModbusEncapsulatedInterface),
                     ExceptionMessageEncode(EX_ServerDeviceFailure),
                     ModbusException(EX_ServerDeviceFailure)),
          FrameReply(1, FC_ModbusEncapsulatedInterface, <<MEI_ReadDeviceIdentification, 3>>,
                     InvalidResponse("Malformed response")),
          FrameReply(2, FC_ModbusEncapsulatedInterface, EmptyPage(TRUE, 0),
                     InvalidResponse("Unit id mismatch")),
          [kind |-> "IO", error |-> IOError]}

FaultyPeerNext ==
    \/ RdiCall
    \/ \E reply \in FaultyPeerReplies : RdiPageFromPeer(1, reply)
    \/ RdiReturn

\* The peer answers every request and the caller polls the operation.
SpecFaultyPeer ==
    /\ ClientInit
    /\ [][FaultyPeerNext]_vars
    /\ WF_vars(\E reply \in FaultyPeerReplies : RdiPageFromPeer(1, reply))
    /\ WF_vars(RdiReturn)

(***************************************************************************)
(* The codec on its own: one value of one type is encoded by               *)
(* encode_to_bytes and the bytes are decoded by decode_from_bytes.  A PDU  *)
(* is the record of its fields; the layouts that several PDUs share stand  *)
(* under the name of one of them.                                          *)
(***************************************************************************)
Encoded(bytes) == [ok |-> TRUE, bytes |-> bytes]

\* T::encode_to_bytes: [ok, bytes] or [ok |-> FALSE, err].
PduEncode(kind, v) ==
    CASE kind = "Message" -> MessageEncode(v)
      [] kind = "ReadCoilsRequest" -> Encoded(ReadRequestEncode(v.address, v.length))
      [] kind = "ReadCoilsResponse" -> ReadCoilsResponseEncode(v.values)
      [] kind = "ReadHoldingRegistersResponse" -> ReadHoldingRegistersResponseEncode(v.values)
      [] kind = "WriteSingleCoilRequest" ->
            Encoded(WriteSingleCoilRequestEncode(v.address, v.value))
      [] kind = "WriteSingleHoldingRegisterRequest" ->
            Encoded(WriteSingleHoldingRegisterRequestEncode(v.address, v.value))
      [] kind = "WriteMultipleCoilsRequest" ->
            WriteMultipleCoilsRequestEncode(v.address, v.values)
      [] kind = "WriteMultipleHoldingRegistersRequest" ->
            WriteMultipleHoldingRegistersRequestEncode(v.address, v.values)
      [] kind = "WriteMultipleHoldingRegistersResponse" ->
            Encoded(WriteMultipleResponseEncode(v.address, v.length))
      [] kind = "MaskWriteHoldingRegisterRequest" ->
            Encoded(MaskWriteHoldingRegisterRequestEncode(v.address, v.and_mask, v.or_mask))
      [] kind = "ExceptionMessage" -> Encoded(ExceptionMessageEncode(v.code))
      [] kind = "ModbusEncapsulatedInterfaceRequest" ->
            Encoded(ModbusEncapsulatedInterfaceEncode(v.kind, v.data))
      [] kind = "ReadDeviceIdentificationRequest" ->
            Encoded(ReadDeviceIdentificationRequestEncode(v.device_id_code, v.object_id))
      [] kind = "ReadDeviceIdentificationResponse" ->
            ReadDeviceIdentificationResponseEncode(v)

\* The fields of a decoded PDU: [ok |-> TRUE, value] or the decode error.
Decoded(d) == IF d.ok THEN [ok |-> TRUE, value |-> [f \in (DOMAIN d) \ {"ok"} |-> d[f]]]
              ELSE d

\* T::decode_from_bytes
PduDecode(kind, bytes) ==
    CASE kind = "Message" ->
            LET d == MessageDecode(bytes) IN
            IF d.ok THEN [ok |-> TRUE, value |-> d.value] ELSE d
      [] kind = "ReadCoilsRequest" -> Decoded(ReadRequestDecode(bytes))
      [] kind = "ReadCoilsResponse" -> Decoded(ReadCoilsResponseDecode(bytes))
      [] kind = "ReadHoldingRegistersResponse" ->
            Decoded(ReadHoldingRegistersResponseDecode(bytes))
      [] kind = "WriteSingleCoilRequest" -> Decoded(WriteSingleCoilRequestDecode(bytes))
      [] kind = "WriteSingleHoldingRegisterRequest" ->
            Decoded(WriteSingleHoldingRegisterRequestDecode(bytes))
      [] kind = "WriteMultipleCoilsRequest" -> Decoded(WriteMultipleCoilsRequestDecode(bytes))
      [] kind = "WriteMultipleHoldingRegistersRequest" ->
            Decoded(WriteMultipleHoldingRegistersRequestDecode(bytes))
      [] kind = "WriteMultipleHoldingRegistersResponse" ->
            Decoded(WriteMultipleResponseDecode(bytes))
      [] kind = "MaskWriteHoldingRegisterRequest" ->
            Decoded(MaskWriteHoldingRegisterRequestDecode(bytes))
      [] kind = "ExceptionMessage" -> Decoded(ExceptionMessageDecode(bytes))
      [] kind = "ModbusEncapsulatedInterfaceRequest" ->
            Decoded(ModbusEncapsulatedInterfaceDecode(bytes))
      [] kind = "ReadDeviceIdentificationRequest" ->
            Decoded(ReadDeviceIdentificationRequestDecode(bytes))
      [] kind = "ReadDeviceIdentificationResponse" ->
            Decoded(ReadDeviceIdentificationResponseDecode(bytes))

\* A value is handed to the codec.
CodecTake(kind, v) ==
    /\ codec.state = "idle"
    /\ codec' = [state |-> "value", kind |-> kind, value |-> v]
    /\ UNCHANGED <<clientVars, serverVars, rdi, connVars>>

\* value.encode_to_bytes()
CodecEncode ==
    /\ codec.state = "value"
    /\ codec' = [state |-> "encoded", kind |-> codec.kind, value |-> codec.value,
                 encoded |-> PduEncode(codec.kind, codec.value)]
    /\ UNCHANGED <<clientVars, serverVars, rdi, connVars>>

\* T::decode_from_bytes(&bytes) of the bytes an encode produced
CodecDecode ==
    /\ codec.state = "encoded"
    /\ codec.encoded.ok
    /\ codec' = [state |-> "decoded", kind |-> codec.kind, value |-> codec.value,
                 encoded |-> codec.encoded,
                 decoded |-> PduDecode(codec.kind, codec.encoded.bytes)]
    /\ UNCHANGED <<clientVars, serverVars, rdi, connVars>>

\* n coils / n registers with a pattern that tells the positions apart.
SomeBools(n) == [i \in 1..n |-> (i % 3 = 1)]
SomeRegisters(n) == [i \in 1..n |-> (i * 517) % 65536]

\* Messages with any header and a body of up to 252 bytes, and one of 253.
MessagePool ==
    {Message(t, p, u, fc, body) :
        t \in {0, 513, 65535}, p \in {0, 2, 65535}, u \in {0, 3, 255},
        fc \in {0, FC_ReadInputRegisters, FC_ModbusEncapsulatedInterface, 100, 132, 255},
        body \in {<<>>, <<5, 6, 7>>, Filler(MSG_MAX_LENGTH - 8)}}
    \cup {Message(1, 0, 1, FC_ReadCoils, Filler(MSG_MAX_LENGTH - 7))}

CodecAddresses == {0, 258, 65535}

PduPool ==
    {<<"ReadCoilsRequest", [address |-> a, length |-> l]>> :
        a \in CodecAddresses, l \in {0, 1, 2000, 65535}}
    \cup {<<"ReadCoilsResponse", [values |-> SomeBools(n)]>> : n \in {0, 1, 8, 10, 16, 2000}}
    \cup {<<"ReadHoldingRegistersResponse", [values |-> SomeRegisters(n)]>> :
            n \in {0, 1, 2, 125, 127, 128}}
    \cup {<<"WriteSingleCoilRequest", [address |-> a, value |-> b]>> :
            a \in CodecAddresses, b \in BOOLEAN}
    \cup {<<"WriteSingleHoldingRegisterRequest", [address |-> a, value |-> x]>> :
            a \in CodecAddresses, x \in {0, 240, 65535}}
    \cup {<<"WriteMultipleCoilsRequest", [address |-> a, values |-> SomeBools(n)]>> :
            a \in CodecAddresses, n \in {0, 1, 8, 9, 1968}}
    \cup {<<"WriteMultipleHoldingRegistersRequest",
            [address |-> a, values |-> SomeRegisters(n)]>> :
            a \in CodecAddresses, n \in {0, 1, 123, 127, 128}}
    \cup {<<"WriteMultipleHoldingRegistersResponse", [address |-> a, length |-> l]>> :
            a \in CodecAddresses, l \in {1, 123, 1968}}
    \cup {<<"MaskWriteHoldingRegisterRequest",
            [address |-> a, and_mask |-> n, or_mask |-> o]>> :
            a \in CodecAddresses, n \in {0, 65534}, o \in {1, 65535}}
    \cup {<<"ExceptionMessage", [code |-> e]>> :
            e \in {0, EX_IllegalFunction, EX_ServerDeviceFailure, 7, 255}}
    \cup {<<"ModbusEncapsulatedInterfaceRequest", [kind |-> k, data |-> d]>> :
            k \in {MEI_ReadDeviceIdentification, 13}, d \in {<<>>, <<1, 2>>, Filler(251)}}
    \cup {<<"ReadDeviceIdentificationRequest", [device_id_code |-> c, object_id |-> o]>> :
            c \in {RDI_Basic, RDI_Individual, 9}, o \in {0, 255}}
    \cup {<<"ReadDeviceIdentificationResponse",
            [device_id_code |-> c, conformity_level |-> CL_ExtendedStreamAndIndividual,
             more_follows |-> mf, next_object_id |-> IF mf THEN 3 ELSE 0,
             objects |-> objects]>> :
            c \in {RDI_Basic, RDI_Extended}, mf \in BOOLEAN,
            objects \in {EmptyMap, (0 :> <<84>>) @@ (1 :> <<>>) @@ (2 :> <<49, 46>>),
                         (255 :> Filler(244))}}

CodecPool == {<<"Message", m>> : m \in MessagePool} \cup PduPool

CodecNext ==
    \/ \E x \in CodecPool : CodecTake(x[1], x[2])
    \/ CodecEncode
    \/ CodecDecode

SpecCodec == ClientInit /\ [][CodecNext]_vars

(***************************************************************************)
(* Message::decode on its own: the bytes a peer may send, with any length  *)
(* field and any number of bytes after the header.                         *)
(***************************************************************************)
\* Decoder::decode(&buffer) of a Message in a build of the crate: what it
\* returns and, by Decoder::position, where the cursor stands after an Ok.
CodecDecodeBuffer(buf, b) ==
    /\ codec.state = "idle"
    /\ codec' = [state |-> "decoded", kind |-> "Buffer", build |-> b, buffer |-> buf,
                 decoded |-> MessageDecodeBuild(buf, b)]
    /\ UNCHANGED <<clientVars, serverVars, rdi, connVars>>

\* The six header bytes with the given length field, and n bytes after them.
BufferOf(id, length, n) ==
    write_u16(id) \o write_u16(0) \o write_u16(length) \o Filler(n)

BufferLengths == {0, 1, 2, 3, 10, MSG_MAX_LENGTH - 6, MSG_MAX_LENGTH - 5, 256, U16_MAX}

BufferPool ==
    {BufferOf(id, length, n) :
        id \in {0, 4660}, length \in BufferLengths,
        n \in {0, 1, 2, 3, 9, 10, 13, MSG_MAX_LENGTH - 7, MSG_MAX_LENGTH - 6, MSG_MAX_LENGTH - 3}}

DecodeNext == \E buf \in BufferPool, b \in {"debug", "release"} : CodecDecodeBuffer(buf, b)

SpecDecode == ClientInit /\ [][DecodeNext]_vars

(***************************************************************************)
(* Frame lengths: a client whose caller runs any public operation at the   *)
(* largest arguments its validation lets pass, and, beside it, a server    *)
(* with one connection that answers one request of a peer.                 *)
(***************************************************************************)
\* A device with an object that fills a frame on its own.
LargeObjectDevice ==
    DeviceIdentification(<<84>>, <<80>>, <<49>>, None, None, None, None,
                         (128 :> Filler(U8_MAX)) @@ (129 :> Filler(MSG_MAX_LENGTH - 16)))

FrameCapCalls ==
    {Call(op, 1, 0, OpMaxLen(op), ValuesFor(op, OpMaxLen(op))) : op \in ValidatedOps}
    \cup {Call("write_single_coils", 1, 65535, 0, <<1>>),
          Call("write_single_holding_register", 1, 65535, 0, <<65535>>),
          Call("mask_write_holding_registers", 1, 65535, 0, <<65535, 65535>>)}
    \cup {Call("modbus_encapsulated_interface", 1, 13, 0, Filler(n)) :
            n \in {0, MSG_MAX_LENGTH - 10, MSG_MAX_LENGTH - 9, MSG_MAX_LENGTH - 8}}

FrameCapRequests ==
    {Message(1, 0, 1, FC_ReadCoils, ReadRequestEncode(0, READ_COILS_MAX_LEN)),
     Message(2, 0, 1, FC_ReadHoldingRegisters,
             ReadRequestEncode(0, READ_HOLDING_REGISTERS_MAX_LEN)),
     Message(3, 0, 1, FC_ModbusEncapsulatedInterface, ModbusEncapsulatedInterfaceEncode(13, <<>>))}
    \cup {Message(4, 0, 1, FC_ModbusEncapsulatedInterface,
                  ModbusEncapsulatedInterfaceEncode(MEI_ReadDeviceIdentification,
                      ReadDeviceIdentificationRequestEncode(code, id))) :
            code \in {RDI_Extended, RDI_Individual}, id \in {0, 128, 129}}

FrameCapInit ==
    ClientFresh /\ ServerInit({1}, {1}, {"release"}, {LargeObjectDevice})

FrameCapNext ==
    \/ \E a \in FrameCapCalls : ClientCall(1, a)
    \/ ClientInsert(1)
    \/ ClientWrite(1, TRUE)
    \/ \E p \in peer : ReaderReply(p)
    \/ ClientComplete(1)
    \/ Accept(1, TRUE)
    \/ \E msg \in FrameCapRequests : PumpRead(1, msg, 1)
    \/ PumpAcquire(1)
    \/ \E t \in TaskIds : TaskHook1(t, 0)
    \/ \E t \in TaskIds : TaskWrite(t)
    \/ \E t \in TaskIds : TaskRelease(t)

SpecFrameCap == FrameCapInit /\ [][FrameCapNext]_vars

(***************************************************************************)
(* Replies: one caller with a read or a write, and a peer that answers     *)
(* under the request's transaction id with any header and body of the      *)
(* pool.                                                                   *)
(***************************************************************************)
WriteOps == {"write_single_coils", "write_single_holding_register", "write_multiple_coils",
             "write_multiple_holding_registers", "mask_write_holding_registers"}

ReplyCalls ==
    {Call("read_holding_registers", 1, 7, 1, <<>>),
     Call("write_single_coils", 1, 7, 0, <<1>>),
     Call("write_single_coils", 1, 7, 0, <<0>>),
     Call("write_single_holding_register", 1, 7, 0, <<240>>),
     Call("write_multiple_coils", 1, 7, 3, <<1, 0, 1>>),
     Call("write_multiple_holding_registers", 1, 7, 3, <<240, 241, 242>>),
     Call("mask_write_holding_registers", 1, 7, 0, <<65534, 1>>)}

ReplyFunctionCodes ==
    {FC_ReadHoldingRegisters, FC_WriteSingleCoil, FC_WriteSingleHoldingRegister,
     FC_WriteMultipleCoils, FC_WriteMultipleHoldingRegisters, FC_MaskWriteHoldingRegister,
     100, 131, 133, 255}

\* Bodies of no, one, two and three 16-bit words, some with a byte more.
ReplyBodies ==
    {<<>>, <<2>>, <<2, 0, 240>>}
    \cup {write_u16(a) \o write_u16(v) : a \in {7, 8}, v \in {0, 1, 3, 240, 65280}}
    \cup {write_u16(7) \o write_u16(v) \o <<9>> : v \in {3, 65280}}
    \cup {write_u16(a) \o write_u16(n) \o write_u16(o) :
            a \in {7, 8}, n \in {65534, 65533}, o \in {1, 0}}

RepliesNext ==
    \/ \E a \in ReplyCalls : ClientCall(1, a)
    \/ ClientInsert(1)
    \/ ClientWrite(1, TRUE)
    \/ \E p \in peer, protocol_id \in {0, 1}, unit_id \in {1, 2},
          function_code \in ReplyFunctionCodes, body \in ReplyBodies :
            ReaderAnswer(p, protocol_id, unit_id, function_code, body)
    \/ ClientComplete(1)

SpecReplies == ClientInit /\ [][RepliesNext]_vars

(***************************************************************************)
(* Read validation: one connection, one read request of any of the four    *)
(* read functions with address and length at the limits.                   *)
(***************************************************************************)
ReadFunctionCodes ==
    {FC_ReadCoils, FC_ReadDiscreteInputs, FC_ReadInputRegisters, FC_ReadHoldingRegisters}

\* The maximum a read function passes to validate_input.
ReadMaxLen(fc) ==
    CASE fc = FC_ReadCoils -> READ_COILS_MAX_LEN
      [] fc = FC_ReadDiscreteInputs -> READ_DISCRETE_INPUTS_MAX_LEN
      [] fc = FC_ReadInputRegisters -> READ_INPUT_REGISTERS_MAX_LEN
      [] fc = FC_ReadHoldingRegisters -> READ_HOLDING_REGISTERS_MAX_LEN

ReadValidationPool ==
    {Message(1, 0, 1, fc, ReadRequestEncode(address, length)) :
        fc \in ReadFunctionCodes,
        address \in {0, 63536, 63537, 65411, 65412, 65535},
        length \in {0, 1, 2, 125, 126, 2000, 2001, 65535}}

ReadValidationInit ==
    ClientFresh /\ ServerInit({1}, {1}, {"release"}, {FreshDevice.device_info})

ReadValidationNext ==
    \/ Accept(1, TRUE)
    \/ \E msg \in ReadValidationPool : PumpRead(1, msg, 1)
    \/ PumpAcquire(1)
    \/ \E t \in TaskIds, fault \in {0, EX_ServerDeviceFailure} : TaskHook1(t, fault)
    \/ \E t \in TaskIds : TaskWrite(t)
    \/ \E t \in TaskIds : TaskRelease(t)

SpecReadValidation == ReadValidationInit /\ [][ReadValidationNext]_vars

(***************************************************************************)
(* Read hooks of any handler: the slice a read hook returns has any        *)
(* length, whatever the request asked for.                                 *)
(***************************************************************************)
ReadTable(fc) ==
    CASE fc = FC_ReadCoils -> "coils"
      [] fc = FC_ReadDiscreteInputs -> "discrete_inputs"
      [] fc = FC_ReadInputRegisters -> "input_registers"
      [] fc = FC_ReadHoldingRegisters -> "holding_registers"

\* The handler task of a read request runs handle_request with a hook that
\* returns a slice of n values.  returned_len is history: that n.
TaskHook1Returning(t, n) ==
    /\ UNCHANGED <<clientVars, rdi, codec, connVars>>
    /\ task[t].pc = "hook1"
    /\ task[t].msg.function_code \in ReadFunctionCodes
    /\ LET fc == task[t].msg.function_code
           req == ReadRequestDecode(task[t].msg.body)
       IN /\ req.ok
          /\ server_validate_input(req.address, req.length, ReadMaxLen(fc)) = 0
          /\ \E values \in {IF fc \in {FC_ReadCoils, FC_ReadDiscreteInputs}
                             THEN SomeBools(n) ELSE SomeRegisters(n)} :
                task' = [task EXCEPT ![t] =
                    [pc |-> "write", msg |-> task[t].msg,
                     result |-> ServerReadReturned(values, req.length, ReadTable(fc)),
                     current_value |-> 0, returned_len |-> n]]
    /\ UNCHANGED <<max_concurrent_connections, max_concurrent_requests, build,
                   connection_count, connection, limiter, h>>

ReadLengthPool ==
    {Message(1, 0, 1, fc, ReadRequestEncode(address, length)) :
        fc \in ReadFunctionCodes, address \in {0, 1000}, length \in {1, 8, 9, 125, 2000}}

\* The lengths of the slices the hooks return.
ReturnedLengths == {0, 1, 2, 7, 8, 9, 10, 16, 124, 125, 126, 127, 1999, 2000, 2001, 2008}

ReadLengthInit ==
    ClientFresh /\ ServerInit({1}, {1}, {"release"}, {FreshDevice.device_info})

ReadLengthNext ==
    \/ Accept(1, TRUE)
    \/ \E msg \in ReadLengthPool : PumpRead(1, msg, 1)
    \/ PumpAcquire(1)
    \/ \E t \in TaskIds : TaskHook1(t, 0)
    \/ \E t \in TaskIds, n \in ReturnedLengths : TaskHook1Returning(t, n)
    \/ \E t \in TaskIds : TaskWrite(t)
    \/ \E t \in TaskIds : TaskRelease(t)

SpecReadLength == ReadLengthInit /\ [][ReadLengthNext]_vars

(***************************************************************************)
(* Malformed requests: one connection, one request with any function code  *)
(* and a body that is short, whole, or has a byte count of its own; the    *)
(* hook, where one is called, succeeds or fails with IllegalDataAddress.    *)
(***************************************************************************)
MalformedBodies ==
    {<<>>, <<0>>, <<0, 1, 0>>, <<0, 1, 0, 1>>, <<0, 1, 0, 1, 0>>, <<0, 1, 0, 1, 1>>,
     <<0, 1, 0, 1, 1, 1>>, <<0, 1, 0, 1, 2, 0>>, <<0, 1, 0, 1, 2, 0, 7>>,
     <<0, 1, 0, 9, 1, 255>>, <<0, 1, 0, 9, 2, 255>>, <<0, 1, 0, 9, 2, 255, 1>>,
     <<0, 1, 0, 0, 0>>, <<14>>, <<14, 1>>, <<14, 1, 0>>, <<13, 1>>}

MalformedFunctionCodes == KnownFunctionCodes \cup {0, 7, 65, 127, 128, 129, 131, 255}

MalformedPool ==
    {Message(1, 0, 1, fc, body) : fc \in MalformedFunctionCodes, body \in MalformedBodies}

MalformedInit ==
    ClientFresh /\ ServerInit({1}, {1}, {"release"}, {FreshDevice.device_info})

MalformedNext ==
    \/ Accept(1, TRUE)
    \/ \E msg \in MalformedPool : PumpRead(1, msg, 1)
    \/ PumpAcquire(1)
    \/ \E t \in TaskIds, fault \in {0, EX_IllegalDataAddress} : TaskHook1(t, fault)
    \/ \E t \in TaskIds, fault \in {0, EX_IllegalDataAddress} : TaskHook2(t, fault)
    \/ \E t \in TaskIds : TaskWrite(t)
    \/ \E t \in TaskIds : TaskRelease(t)

SpecMalformed == MalformedInit /\ [][MalformedNext]_vars

(***************************************************************************)
(* Read Device Identification on the server: one connection, one request   *)
(* with any device id code and object id, against a device that lacks some *)
(* of the optional objects, has an object of 255, 244 or 256 bytes, or has *)
(* more objects than a page holds.                                         *)
(***************************************************************************)
\* A device without vendor_url, model_name and user_application_name.
PartialDevice ==
    DeviceIdentification(<<86>>, <<80>>, <<49>>, None, Some(<<110>>), None, None,
                         (128 :> <<1, 2>>))

\* A device whose objects fill more than one page: two of 200 bytes, a
\* short one after them, and one under the top id.
PagedDevice ==
    DeviceIdentification(<<86>>, <<80>>, <<49>>, None, None, None, None,
                         (128 :> Filler(200)) @@ (129 :> Filler(200)) @@ (130 :> <<1>>)
                            @@ (255 :> <<9>>))

IdentificationPool ==
    {Message(1, 0, 1, FC_ModbusEncapsulatedInterface,
             ModbusEncapsulatedInterfaceEncode(MEI_ReadDeviceIdentification,
                 ReadDeviceIdentificationRequestEncode(device_id_code, object_id))) :
        device_id_code \in {0, 1, 2, 3, 4, 5, 255},
        object_id \in {0, 2, 3, 4, 7, 128, 129, 255}}

IdentificationInit ==
    ClientFresh /\ ServerInit({1}, {1}, {"debug", "release"},
                              {PartialDevice, OverlongObjectDevice, LargeObjectDevice,
                               PagedDevice})

IdentificationNext ==
    \/ Accept(1, TRUE)
    \/ \E msg \in IdentificationPool : PumpRead(1, msg, 1)
    \/ PumpAcquire(1)
    \/ \E t \in TaskIds : TaskHook1(t, 0)
    \/ \E t \in TaskIds : TaskWrite(t)
    \/ \E t \in TaskIds : TaskRelease(t)

SpecIdentification == IdentificationInit /\ [][IdentificationNext]_vars

(***************************************************************************)
(* Progress: one connection with up to MaxMessages requests under a limit  *)
(* of 1 or 2 concurrent requests, every hook returning.  The tokio         *)
(* scheduler runs every task that can run, and a write returns (with the   *)
(* bytes written or with an error): each step of the read loop and of a    *)
(* handler task is taken in the end.  The peer is free to stop sending.    *)
(***************************************************************************)
ProgressPool ==
    {Message(1, 0, 1, FC_ReadHoldingRegisters, ReadRequestEncode(100, 1)),
     Message(2, 0, 1, FC_ReadCoils, ReadRequestEncode(0, 0)),
     Message(3, 0, 1, FC_ModbusEncapsulatedInterface,
             ModbusEncapsulatedInterfaceEncode(MEI_ReadDeviceIdentification,
                 ReadDeviceIdentificationRequestEncode(RDI_Extended, 255)))}

ProgressInit ==
    ClientFresh /\ ServerInit({1}, {1, 2}, {"debug", "release"}, {PagedDevice})

ProgressNext ==
    \/ Accept(1, TRUE)
    \/ \E msg \in ProgressPool : PumpRead(1, msg, MaxMessages)
    \/ PumpAcquire(1)
    \/ PumpEnd(1)
    \/ \E t \in TaskIds : TaskHook1(t, 0)
    \/ \E t \in TaskIds : TaskWrite(t)
    \/ \E t \in TaskIds : TaskWriteFailed(t)
    \/ \E t \in TaskIds : TaskRelease(t)

\* A task at its hook always has its step to take (handle_request is
\* total), so that "the hook returns" is: no task stays at its hook forever.
HooksReturn == \A t \in TaskIds : []<>(task[t].pc # "hook1")

ProgressFairness ==
    /\ WF_vars(PumpAcquire(1))
    /\ HooksReturn
    /\ \A t \in TaskIds :
          /\ WF_vars(TaskWrite(t) \/ TaskWriteFailed(t))
          /\ WF_vars(TaskRelease(t))

SpecProgress == ProgressInit /\ [][ProgressNext]_vars /\ ProgressFairness

(***************************************************************************)
(* Write echo: one connection, one write request of any of the four write  *)
(* functions; the value word of a single coil is any 16-bit word.          *)
(***************************************************************************)
WriteEchoPool ==
    {Message(1, 0, 1, FC_WriteSingleCoil, write_u16(address) \o write_u16(word)) :
        address \in {0, 258, 65535}, word \in {0, 65280, 1, 4660, 65535}}
    \cup {Message(1, 0, 1, FC_WriteSingleHoldingRegister,
                  WriteSingleHoldingRegisterRequestEncode(address, value)) :
        address \in {0, 258, 65535}, value \in {0, 1, 4660, 65280, 65535}}
    \cup {Message(1, 0, 1, FC_WriteMultipleCoils,
                  WriteMultipleCoilsRequestEncode(address, SomeBools(n)).bytes) :
        address \in {0, 258}, n \in {1, 9, WRITE_MULTIPLE_COILS_MAX_LEN}}
    \cup {Message(1, 0, 1, FC_WriteMultipleHoldingRegisters,
                  WriteMultipleHoldingRegistersRequestEncode(address, SomeRegisters(n)).bytes) :
        address \in {0, 258}, n \in {1, 2, WRITE_MULTIPLE_HOLDING_REGISTERS_MAX_LEN}}

WriteEchoInit ==
    ClientFresh /\ ServerInit({1}, {1}, {"release"}, {FreshDevice.device_info})

WriteEchoNext ==
    \/ Accept(1, TRUE)
    \/ \E msg \in WriteEchoPool : PumpRead(1, msg, 1)
    \/ PumpAcquire(1)
    \/ \E t \in TaskIds, fault \in {0, EX_ServerDeviceFailure} : TaskHook1(t, fault)
    \/ \E t \in TaskIds : TaskWrite(t)
    \/ \E t \in TaskIds : TaskRelease(t)

SpecWriteEcho == WriteEchoInit /\ [][WriteEchoNext]_vars

(***************************************************************************)
(* Connection::write_message (connection.rs), byte by byte: the calls of   *)
(* the callers of one client on its Connection.  A call encodes its frame, *)
(* waits for the Mutex of the write half and runs write_all under it;      *)
(* write_all hands the socket the bytes in as many writes as the socket    *)
(* takes.  The caller may drop the call at either await.                   *)
(***************************************************************************)
\* write_message is called: the frame is encoded, then the call waits for
\* the lock.
WriteCall(w, msg) ==
    /\ UNCHANGED <<clientVars, serverVars, rdi, codec, readVars>>
    /\ write_call[w].pc = "idle"
    /\ LET enc == MessageEncode(msg) IN
       write_call' = [write_call EXCEPT ![w] =
            IF enc.ok THEN [pc |-> "lock", bytes |-> enc.bytes, pos |-> 0]
            ELSE [pc |-> "done", outcome |-> "Encode"]]
    /\ UNCHANGED <<writer, wire, wire_broken>>

\* self.writer.lock().await returns the guard.
WriteLock(w) ==
    /\ UNCHANGED <<clientVars, serverVars, rdi, codec, readVars>>
    /\ write_call[w].pc = "lock"
    /\ writer = 0
    /\ writer' = w
    /\ write_call' = [write_call EXCEPT ![w].pc = "write_all"]
    /\ UNCHANGED <<wire, wire_broken>>

\* One write of write_all: the socket takes n of the bytes that are left.
\* With the last byte write_all returns, the guard is dropped and
\* write_message returns Ok(()).
WriteSome(w, n) ==
    /\ UNCHANGED <<clientVars, serverVars, rdi, codec, readVars>>
    /\ write_call[w].pc = "write_all"
    /\ ~wire_broken
    /\ LET c == write_call[w] IN
       /\ n \in 1..(Len(c.bytes) - c.pos)
       /\ wire' = wire \o SubSeq(c.bytes, c.pos + 1, c.pos + n)
       /\ IF c.pos + n = Len(c.bytes)
          THEN /\ write_call' = [write_call EXCEPT ![w] =
                      [pc |-> "done", bytes |-> c.bytes, pos |-> c.pos + n,
                       outcome |-> "Ok"]]
               /\ writer' = 0
          ELSE /\ write_call' = [write_call EXCEPT ![w].pos = c.pos + n]
               /\ UNCHANGED writer
    /\ UNCHANGED wire_broken

\* A write of write_all fails: the guard is dropped and write_message
\* returns WriteError::IO.  The socket takes no byte from then on.
WriteFail(w) ==
    /\ UNCHANGED <<clientVars, serverVars, rdi, codec, readVars>>
    /\ write_call[w].pc = "write_all"
    /\ write_call' = [write_call EXCEPT ![w] =
            [pc |-> "done", bytes |-> write_call[w].bytes, pos |-> write_call[w].pos,
             outcome |-> "IO"]]
    /\ writer' = 0
    /\ wire_broken' = TRUE
    /\ UNCHANGED wire

\* The caller drops the future of write_message at one of its awaits; a
\* guard it holds is dropped with it.
WriteCancel(w) ==
    /\ UNCHANGED <<clientVars, serverVars, rdi, codec, readVars>>
    /\ write_call[w].pc \in {"lock", "write_all"}
    /\ write_call' = [write_call EXCEPT ![w].pc = "cancelled"]
    /\ writer' = IF writer = w THEN 0 ELSE writer
    /\ UNCHANGED <<wire, wire_broken>>

\* The frames the callers write: one read request each.
WriteFrame(w) == Message(w, 0, 1, FC_ReadHoldingRegisters, ReadRequestEncode(100 + w, w))

\* What one write may take of a frame: the header's first bytes, or all
\* that is left.
WriteChunks(w) ==
    IF write_call[w].pc = "write_all"
    THEN {5, Len(write_call[w].bytes) - write_call[w].pos}
    ELSE {}

WritesNext ==
    \/ \E w \in Callers : WriteCall(w, WriteFrame(w))
    \/ \E w \in Callers : WriteLock(w)
    \/ \E w \in Callers : \E n \in WriteChunks(w) : WriteSome(w, n)
    \/ \E w \in Callers : WriteFail(w)
    \/ \E w \in Callers : WriteCancel(w)

SpecWrites == ClientInit /\ [][WritesNext]_vars

(***************************************************************************)
(* Connection::read_message (connection.rs), byte by byte: the peer sends  *)
(* up to MaxMessages frames and closes; the socket hands the bytes over in *)
(* chunks of any size.  The one task that calls read_message calls it      *)
(* again after every Ok(Some(msg)).                                        *)
(***************************************************************************)
\* The peer sends a frame.
PeerSend(msg) ==
    /\ UNCHANGED <<clientVars, serverVars, rdi, codec, writeVars>>
    /\ ~peer_closed
    /\ Len(peer_sent) < MaxMessages
    /\ inbound' = inbound \o MessageEncode(msg).bytes
    /\ peer_sent' = Append(peer_sent, msg)
    /\ UNCHANGED <<read_buffer, read_pc, shutdown_called, read_results, chunks, peer_closed>>

\* The peer closes its side.
PeerClose ==
    /\ UNCHANGED <<clientVars, serverVars, rdi, codec, writeVars>>
    /\ ~peer_closed
    /\ peer_closed' = TRUE
    /\ UNCHANGED <<read_buffer, read_pc, shutdown_called, read_results, chunks, inbound,
                   peer_sent>>

\* A decode that empties the buffer after a frame.
ReadDecodeClearingBuffer ==
    /\ UNCHANGED <<clientVars, serverVars, rdi, codec, writeVars>>
    /\ read_pc = "decode"
    /\ LET msg == MessageDecode(read_buffer) IN
       IF msg.ok
       THEN /\ read_buffer' = <<>>
            /\ read_results' = Append(read_results, [ok |-> TRUE, msg |-> Some(msg.value)])
            /\ UNCHANGED read_pc
       ELSE IF msg.err = "MissingData"
       THEN /\ read_pc' = "read"
            /\ UNCHANGED <<read_buffer, read_results>>
       ELSE /\ read_pc' = "failed"
            /\ read_results' = Append(read_results, [ok |-> FALSE, err |-> "Decode"])
            /\ UNCHANGED read_buffer
    /\ UNCHANGED <<shutdown_called, chunks, inbound, peer_closed, peer_sent>>

\* The inner loop of read_message: decoder.read_type() on the buffer.  A
\* Message advances the buffer by the decoder's position and is returned;
\* InvalidData is returned as ReadError::Decode; MissingData breaks to the
\* read.
ReadDecode ==
    /\ UNCHANGED <<clientVars, serverVars, rdi, codec, writeVars>>
    /\ read_pc = "decode"
    /\ LET msg == MessageDecode(read_buffer) IN
       IF msg.ok
       THEN /\ read_buffer' = SubSeq(read_buffer, msg.pos + 1, Len(read_buffer))
            /\ read_results' = Append(read_results, [ok |-> TRUE, msg |-> Some(msg.value)])
            /\ UNCHANGED read_pc
       ELSE IF msg.err = "MissingData"
       THEN /\ read_pc' = "read"
            /\ UNCHANGED <<read_buffer, read_results>>
       ELSE /\ read_pc' = "failed"
            /\ read_results' = Append(read_results, [ok |-> FALSE, err |-> "Decode"])
            /\ UNCHANGED read_buffer
    /\ UNCHANGED <<shutdown_called, chunks, inbound, peer_closed, peer_sent>>

\* reader.read_buf(&mut read_buffer) returns n > 0: the next n bytes of the
\* stream are appended and the loop decodes again.
ReadSome(n) ==
    /\ UNCHANGED <<clientVars, serverVars, rdi, codec, writeVars>>
    /\ read_pc = "read"
    /\ n \in 1..Len(inbound)
    /\ read_buffer' = read_buffer \o SubSeq(inbound, 1, n)
    /\ inbound' = SubSeq(inbound, n + 1, Len(inbound))
    /\ chunks' = Append(chunks, n)
    /\ read_pc' = "decode"
    /\ UNCHANGED <<shutdown_called, read_results, peer_closed, peer_sent>>

\* read_buf returns 0, the peer's EOF: the write half is shut down and
\* read_message returns Ok(None).
ReadEof ==
    /\ UNCHANGED <<clientVars, serverVars, rdi, codec, writeVars>>
    /\ read_pc = "read"
    /\ inbound = <<>> /\ peer_closed
    /\ shutdown_called' = TRUE
    /\ read_results' = Append(read_results, [ok |-> TRUE, msg |-> None])
    /\ read_pc' = "closed"
    /\ UNCHANGED <<read_buffer, chunks, inbound, peer_closed, peer_sent>>

\* read_buf returns an error: read_message returns ReadError::IO.
ReadFail ==
    /\ UNCHANGED <<clientVars, serverVars, rdi, codec, writeVars>>
    /\ read_pc = "read"
    /\ read_results' = Append(read_results, [ok |-> FALSE, err |-> "IO"])
    /\ read_pc' = "failed"
    /\ UNCHANGED <<read_buffer, shutdown_called, chunks, inbound, peer_closed, peer_sent>>

\* The frames the peer sends: a read request and an exception reply.
PeerFrames ==
    {Message(1, 0, 1, FC_ReadHoldingRegisters, ReadRequestEncode(100, 2)),
     Message(2, 0, 255, as_err(FC_ReadCoils), ExceptionMessageEncode(EX_IllegalFunction)),
     Message(3, 0, 1, 65, <<>>)}

\* The sizes of a read: half a header, a header short of its last byte, a
\* frame and a bit, or all there is.
ReadSizes == {3, 5, 14, Len(inbound)}

ReadsNext ==
    \/ \E msg \in PeerFrames : PeerSend(msg)
    \/ PeerClose
    \/ ReadDecode
    \/ \E n \in ReadSizes : ReadSome(n)
    \/ ReadEof
    \/ ReadFail

SpecReads == ClientInit /\ [][ReadsNext]_vars

C2_FanOutOnEveryReaderError ==
    reader.state = "failed" =>
        \A c \in pending_at_exit : slot[c] = SlotErr(reader.error)

\* C3 (as claimed): an operation (with arguments that pass validation) issued
\* after the reader task failed returns an IO error, and never waits on its
\* one-shot slot: with the reader gone no task is left to send on that slot.
C3_LateOperationFailsWithIO ==
    \A c \in Callers :
        late[c] /\ OpValidate(call[c]) =>
            /\ pc[c] = "done" => result[c] = IOError
            /\ pc[c] # "await"

\* A caller that waits on its slot after the reader failed keeps waiting:
\* the only step left to it is the panic of a channel closed under it.
LateWaitIsForever ==
    [][\A c \in Callers :
          late[c] /\ pc[c] = "await" => pc'[c] \in {"await", "panicked"}]_vars

\* The policy of C4, from the claim: the arguments a validated operation is
\* to reject.
C4_Rejected(a) ==
    \/ a.length = 0
    \/ a.length > OpMaxLen(a.op)
    \/ a.address + a.length - 1 > 65535

\* C4: a call of a validated operation with length 0, length above the
\* operation's maximum or address + length - 1 above 0xFFFF has returned
\* ArgumentsOutOfRange and left no trace: it fetched no transaction id,
\* created no one-shot channel, has no entry in the pending map and wrote no
\* byte; the counter counts exactly the calls that passed.
C4_LengthPolicy ==
    /\ \A c \in Callers :
          pc[c] # "idle" /\ call[c].op \in ValidatedOps /\ C4_Rejected(call[c]) =>
              /\ pc[c] = "done"
              /\ result[c] = ArgumentsOutOfRange
              /\ tid[c] = -1
              /\ slot[c] = SlotNone
              /\ sent[c] = <<>>
              /\ c \notin PendingCallers
              /\ \A p \in peer : p.from # c
    /\ transaction_id = Cardinality({c \in Callers : tid[c] # -1}) % TidModulus

\* A call rejected for address + length - 1 > 0xFFFF alone, while another
\* caller's request is in flight.
C4_Witness ==
    \E c, d \in Callers :
        /\ pc[c] = "done" /\ result[c] = ArgumentsOutOfRange
        /\ call[c].length = 2 /\ call[c].address = 65535
        /\ pc[d] = "await" /\ call[d].length = OpMaxLen(call[d].op)
        /\ d < c

\* The callers that completed on a reply frame, and that frame.
Answered == {c \in Callers : pc[c] = "done" /\ slot[c].state = "ok"}

Reply(c) == slot[c].item.msg

\* The header of the reply is the header of the caller's request.
HeaderMatches(c) ==
    /\ Reply(c).protocol_id = 0
    /\ Reply(c).unit_id = call[c].unit_id
    /\ Reply(c).function_code = OpFunctionCode(call[c].op)

\* What C14 has in common as claimed and as amended: an operation returns Ok
\* only on a reply with the request's protocol id, unit id and function
\* code; a reply with another protocol id or unit id yields InvalidResponse;
\* a reply with both equal, no exception code and another function code
\* yields InvalidResponse.
ReplyMatching(c) ==
    /\ result[c].kind = "Ok" => HeaderMatches(c)
    /\ Reply(c).protocol_id # 0 => result[c] = InvalidResponse("Protocol id mismatch")
    /\ (Reply(c).protocol_id = 0 /\ Reply(c).unit_id # call[c].unit_id) =>
          result[c] = InvalidResponse("Unit id mismatch")
    /\ (Reply(c).protocol_id = 0 /\ Reply(c).unit_id = call[c].unit_id
          /\ FunctionCodeVariant(Reply(c).function_code) # "Error"
          /\ Reply(c).function_code # OpFunctionCode(call[c].op)) =>
          result[c] = InvalidResponse("Function code mismatch")

\* The reply passed the comparison of protocol id and unit id and has an
\* exception function code.
ExceptionReply(c) ==
    /\ Reply(c).protocol_id = 0
    /\ Reply(c).unit_id = call[c].unit_id
    /\ FunctionCodeVariant(Reply(c).function_code) = "Error"

\* C14 (as claimed): reply matching as above, and every reply with an
\* exception function code yields ModbusException(code) with the code of the
\* reply body.
C14_ReplyMatching ==
    \A c \in Answered :
        /\ ReplyMatching(c)
        /\ ExceptionReply(c) =>
              /\ result[c].kind = "ModbusException"
              /\ result[c].code = Reply(c).body[1]

\* C14 (amended): reply matching as above, and a reply with an exception
\* function code yields ModbusException(code) with code the first byte of
\* the reply body when the body has one, and InvalidResponse when the body
\* is empty.
C14_ReplyMatchingWithCodeByte ==
    \A c \in Answered :
        /\ ReplyMatching(c)
        /\ ExceptionReply(c) =>
              IF Len(Reply(c).body) >= 1
              THEN result[c] = ModbusException(Reply(c).body[1])
              ELSE result[c] = InvalidResponse("Malformed response")

\* A read of holding registers was answered with function code 0x83 and the
\* body 02 under the request's unit id, and returned ModbusException(2).
C14_Witness ==
    /\ 1 \in Answered
    /\ call[1].op = "read_holding_registers"
    /\ Reply(1).function_code = 131 /\ Reply(1).unit_id = 1 /\ Reply(1).protocol_id = 0
    /\ Reply(1).body = <<2>>
    /\ result[1] = ModbusException(EX_IllegalDataAddress)

\* The 16-bit word n (1-based) of a body.
EchoWord(body, n) == body[2 * n - 1] * 256 + body[2 * n]

\* The echo a write expects: the words of its response, the coil of a single
\* write as the boolean it decodes to (a word other than 0 is true).
EchoEquals(a, body) ==
    CASE a.op = "write_single_coils" ->
            /\ Len(body) >= 4 /\ EchoWord(body, 1) = a.address
            /\ (EchoWord(body, 2) # 0) = (a.values[1] = 1)
      [] a.op = "write_single_holding_register" ->
            /\ Len(body) >= 4 /\ EchoWord(body, 1) = a.address
            /\ EchoWord(body, 2) = a.values[1]
      [] a.op \in {"write_multiple_coils", "write_multiple_holding_registers"} ->
            /\ Len(body) >= 4 /\ EchoWord(body, 1) = a.address
            /\ EchoWord(body, 2) = Len(a.values)
      [] a.op = "mask_write_holding_registers" ->
            /\ Len(body) >= 6 /\ EchoWord(body, 1) = a.address
            /\ EchoWord(body, 2) = a.values[1] /\ EchoWord(body, 3) = a.values[2]

CancelledPending(c) == pc[c] = "cancelled" /\ response_map[tid[c]] = c

\* A step of the reader that takes c's entry out of the map for a response
\* that arrived under c's id: nothing is delivered, the reader and every
\* other entry stay as they were.
Reaped(c) ==
    /\ pc' = pc
    /\ reader' = reader
    /\ response_map' = [response_map EXCEPT ![tid[c]] = 0]
    /\ slot' = slot

\* The step is the arrival of the peer's response to a request with the
\* transaction id of c.
ResponseArrives(c) == \E p \in peer : p \notin peer' /\ p.msg.transaction_id = tid[c]

\* A step of the reader that fails and drains the map.
ReaderFailed == reader.state = "running" /\ reader'.state = "failed"

\* The step hands caller d the response to the request of c.
HandedResponseOf(d, c) ==
    /\ slot[d].state = "empty" /\ slot'[d].state = "ok"
    /\ slot'[d].item.answers = c

\* No other request of the client was given the transaction id of c.
IdNotReused(c) == \A d \in Callers \ {c} : tid[d] # tid[c]

StrayRead ==
    \/ \E t \in TidSpace : response_map[t] = 0 /\ ReaderUnsolicited(t)
    \/ \E p \in peer : response_map[p.msg.transaction_id] = 0 /\ ReaderReply(p)

\* C26: a frame whose transaction id has no entry in the pending map ends
\* the reader with InvalidResponse("The server sent an unexpected response")
\* and is delivered to no caller: no caller's slot, result or position
\* changes and no entry leaves the map.
C26_StrayResponseEndsReader ==
    [][StrayRead =>
          /\ reader'.state = "failed"
          /\ reader'.error = InvalidResponse("The server sent an unexpected response")
          /\ slot' = slot /\ result' = result /\ pc' = pc
          /\ response_map' = response_map]_vars

\* The reader ended on a stray frame while a caller was waiting for its
\* response, and that caller's slot is still empty.
C26_Witness ==
    /\ reader.state = "failed"
    /\ reader.error = InvalidResponse("The server sent an unexpected response")
    /\ \E c \in pending_at_exit : pc[c] = "await" /\ slot[c].state = "empty"

\* C34 (as claimed): no insert replaces the entry of a request that is
\* still pending: no waiting caller's Sender is dropped without a result
\* having been sent (its channel is never closed on it), and no caller is
\* handed the answer to another caller's request.
C34_NoSlotOverwritten ==
    \A c \in Callers :
        /\ slot[c].state # "closed"
        /\ pc[c] # "panicked"
        /\ slot[c].state = "ok" => slot[c].item.answers \in {0, c}

\* C35 (as claimed): a caller whose send_request returned because the frame
\* could not be encoded or written has no entry in the pending map; and an
\* entry of the map is that of a request whose frame was written, or is
\* being written by a caller that has not returned.
C35_NoStaleSlot ==
    /\ \A c \in Callers :
          (pc[c] = "done" /\ slot[c] = SlotDropped) => response_map[tid[c]] # c
    /\ \A t \in TidSpace :
          response_map[t] # 0 =>
              LET c == response_map[t] IN pc[c] = "write" \/ sent[c] # <<>>

\* C37 (as claimed): once the reader has exited on the peer's close, the
\* pending map is empty and every caller that was pending at that moment
\* holds a result or an error in its one-shot slot, so that it returns.
C37_OrderlyCloseStrandsNobody ==
    reader.state = "closed" =>
        /\ \A t \in TidSpace : response_map[t] = 0
        /\ \A c \in pending_at_exit : slot[c].state \in {"ok", "err"}

\* C39 (as claimed): a read operation that returns Ok returns exactly as
\* many values as its `length` argument asked for, whatever byte count the
\* peer's response carried.
C39_ReadResultHasRequestedSize ==
    \A c \in Callers :
        (pc[c] = "done" /\ result[c].kind = "Ok"
            /\ call[c].op \in {"read_coils", "read_discrete_inputs",
                               "read_input_registers", "read_holding_registers"}) =>
            Len(result[c].value) = call[c].length

(***************************************************************************)
(* Properties of the Connection.                                           *)
(***************************************************************************)
\* The wire cut at the length fields of its frames: the complete frames in
\* wire order and the bytes after the last of them.
RECURSIVE WireFrames(_)
WireFrames(buf) ==
    IF Len(buf) < 6 THEN [frames |-> <<>>, rest |-> buf]
    ELSE LET n == 6 + buf[5] * 256 + buf[6] IN
         IF Len(buf) < n THEN [frames |-> <<>>, rest |-> buf]
         ELSE LET r == WireFrames(SubSeq(buf, n + 1, Len(buf))) IN
              [frames |-> <<SubSeq(buf, 1, n)>> \o r.frames, rest |-> r.rest]

\* C22 (as claimed): the bytes on the wire are the frames of calls of
\* write_message one after the other, each frame whole and in one piece;
\* after them come only the bytes written so far by one call that has not
\* returned Ok: the call that holds the lock, a call that was cancelled or
\* the call whose write failed.  No byte of another frame follows a frame
\* that was left unfinished.
C22_WritesNeverInterleaved ==
    LET p == WireFrames(wire) IN
    /\ \A i \in DOMAIN p.frames :
          \E w \in Callers : /\ "bytes" \in DOMAIN write_call[w]
                             /\ p.frames[i] = write_call[w].bytes
    /\ \/ p.rest = <<>>
       \/ \E w \in Callers :
             /\ "bytes" \in DOMAIN write_call[w]
             /\ \/ writer = w
                \/ write_call[w].pc = "cancelled"
                \/ write_call[w].pc = "done" /\ write_call[w].outcome = "IO"
             /\ p.rest = SubSeq(write_call[w].bytes, 1, write_call[w].pos)

\* The frames the calls of read_message returned so far, in order.
ReturnedFrames ==
    [i \in {j \in DOMAIN read_results : read_results[j].ok /\ read_results[j].msg.some} |->
        read_results[i].msg.value]

\* The bytes of a sequence of frames.
RECURSIVE BytesOf(_)
BytesOf(frames) ==
    IF frames = <<>> THEN <<>>
    ELSE MessageEncode(Head(frames)).bytes \o BytesOf(Tail(frames))

\* C25: whatever the sizes of the reads, the frames read_message has
\* returned are the frames the peer sent, each once and in wire order, as
\* far as their bytes have arrived: no byte is lost, repeated or taken for
\* a framing error; and when the peer has closed, read_message returns
\* Ok(None) after the last of the frames, with the write half shut down.
C25_StreamReassembly ==
    /\ \A i \in DOMAIN read_results :
          /\ read_results[i].ok \/ read_results[i].err = "IO"
          /\ (read_results[i].ok /\ ~read_results[i].msg.some) \/ ~read_results[i].ok => i = Len(read_results)
    /\ LET frames == ReturnedFrames IN
       /\ DOMAIN frames = 1..Cardinality(DOMAIN frames)
       /\ BytesOf(frames) \o read_buffer \o inbound = BytesOf(peer_sent)
    /\ read_pc = "closed" =>
          /\ peer_closed /\ shutdown_called
          /\ read_results = [i \in 1..(Len(peer_sent) + 1) |->
                            IF i <= Len(peer_sent)
                            THEN [ok |-> TRUE, msg |-> Some(peer_sent[i])]
                            ELSE [ok |-> TRUE, msg |-> None]]
    /\ shutdown_called => read_pc = "closed"

\* The peer sent two frames and closed; the first read brought the first
\* five bytes of the first frame, the second the rest of it together with
\* the whole second frame; read_message returned both and then Ok(None).
C25_Witness ==
    /\ Len(peer_sent) = 2
    /\ Len(chunks) = 2 /\ chunks[1] = 5
    /\ chunks[2] = Len(BytesOf(peer_sent)) - 5
    /\ read_pc = "closed"
    /\ Len(read_results) = 3

(***************************************************************************)
(* Properties of the codec.                                                *)
(***************************************************************************)
\* C11: a Message with a body of at most 252 bytes, whatever its transaction
\* id, protocol id, unit id and function code (known or not), encodes to 8
\* bytes of header and the body with the length field body.len() + 2, and
\* the bytes decode to a Message equal to the original.
C11_FrameRoundTrip ==
    (codec.state \in {"encoded", "decoded"} /\ codec.kind = "Message"
        /\ Len(codec.value.body) <= 252) =>
        /\ codec.encoded.ok
        /\ Len(codec.encoded.bytes) = 8 + Len(codec.value.body)
        /\ codec.encoded.bytes[5] * 256 + codec.encoded.bytes[6]
              = Len(codec.value.body) + 2
        /\ codec.state = "decoded" =>
              codec.decoded = [ok |-> TRUE, value |-> codec.value]

\* A Message with an unknown function code and a body of 252 bytes went
\* through the codec and came back.
C11_Witness ==
    /\ codec.state = "decoded" /\ codec.kind = "Message"
    /\ Len(codec.value.body) = 252
    /\ FunctionCodeVariant(codec.value.function_code) = "Unknown"
    /\ codec.value.transaction_id = 65535
    /\ codec.decoded.ok /\ codec.decoded.value = codec.value

\* C12 (as claimed): every PDU value that encodes decodes, from the bytes of
\* its encoding, to a value equal to itself.
C12_PduRoundTrip ==
    (codec.state = "decoded" /\ codec.kind # "Message") =>
        codec.decoded = [ok |-> TRUE, value |-> codec.value]

\* C24 (as claimed): Message::decode of a buffer that holds the six header
\* bytes: a length field above 254 gives InvalidData; otherwise a buffer
\* with fewer bytes than the frame (6 + length) gives MissingData, and a
\* buffer with the whole frame gives the Message with the length - 2 bytes
\* after unit id and function code as its body, the cursor after them.
C24_DecodeByLengthField ==
    codec.state = "decoded" /\ codec.kind = "Buffer" =>
        LET buf == codec.buffer
            length == buf[5] * 256 + buf[6]
            d == codec.decoded
        IN IF length > MSG_MAX_LENGTH - 6 THEN ~d.ok /\ d.err = "InvalidData"
           ELSE IF Len(buf) < 6 + length THEN ~d.ok /\ d.err = "MissingData"
           ELSE /\ d.ok
                /\ d.value.body = SubSeq(buf, 9, 6 + length)
                /\ Len(d.value.body) = length - 2
                /\ d.pos = 6 + length

\* C33 (as claimed): Message::decode of any buffer returns a Message,
\* MissingData or InvalidData, and a header whose length field is below 2
\* gives InvalidData: no panic, and no MissingData that asks for the bytes
\* of a wrapped length.
C33_DecodeTotalOnLength ==
    codec.state = "decoded" /\ codec.kind = "Buffer" =>
        LET length == codec.buffer[5] * 256 + codec.buffer[6]
            d == codec.decoded
        IN /\ d.ok \/ d.err \in {"MissingData", "InvalidData"}
           /\ length < 2 => ~d.ok /\ d.err = "InvalidData"

(***************************************************************************)
(* Properties of the server.                                               *)
(***************************************************************************)
\* The handler tasks that wrote a normal (non-exception) response.
Succeeded ==
    {t \in TaskIds : "res_msg" \in DOMAIN task[t]
                     /\ task[t].res_msg.function_code = task[t].msg.function_code}

\* C21 (as claimed): a successful response to a write carries the first two
\* 16-bit fields of the request as they were received: address and value
\* word of a single write, address and length of a multiple write.
C21_ServerWriteEcho ==
    \A t \in Succeeded :
        task[t].msg.function_code \in
            {FC_WriteSingleCoil, FC_WriteSingleHoldingRegister,
             FC_WriteMultipleCoils, FC_WriteMultipleHoldingRegisters} =>
            task[t].res_msg.body = SubSeq(task[t].msg.body, 1, 4)

\* The number of values a normal read response carries, as its byte count
\* tells it: bytes of eight coils or inputs, pairs of bytes of a register.
ResponseByteCount(t) == task[t].res_msg.body[1]

ExpectedByteCount(function_code, length) ==
    IF function_code \in {FC_ReadCoils, FC_ReadDiscreteInputs}
    THEN (length + 7) \div 8 ELSE length * 2

\* C27: a normal response to a read carries as many values as the request's
\* length field asks for: its byte count and its body are those of that
\* many values; and a hook that returned a slice of any other length is
\* answered with the exception ServerDeviceFailure.
C27_ReadResponseLength ==
    \A t \in TaskIds :
        ("res_msg" \in DOMAIN task[t] /\ task[t].msg.function_code \in ReadFunctionCodes) =>
            LET fc == task[t].msg.function_code
                length == ReadRequestDecode(task[t].msg.body).length
            IN /\ t \in Succeeded =>
                     /\ ResponseByteCount(t) = ExpectedByteCount(fc, length)
                     /\ Len(task[t].res_msg.body) = 1 + ExpectedByteCount(fc, length)
                     /\ "returned_len" \in DOMAIN task[t] => task[t].returned_len = length
               /\ ("returned_len" \in DOMAIN task[t] /\ task[t].returned_len # length) =>
                     /\ task[t].res_msg.function_code = as_err(fc)
                     /\ task[t].res_msg.body = <<EX_ServerDeviceFailure>>

\* A hook returned nine values for a request of eight coils, which would
\* fill a second byte, and the reply written is an exception.
C27_Witness ==
    \E t \in TaskIds :
        /\ "res_msg" \in DOMAIN task[t] /\ "returned_len" \in DOMAIN task[t]
        /\ task[t].msg.function_code = FC_ReadCoils
        /\ ReadRequestDecode(task[t].msg.body).length = 8
        /\ task[t].returned_len = 9
        /\ task[t].res_msg.body = <<EX_ServerDeviceFailure>>

\* A body that is no request PDU of the function: shorter than the PDU's
\* fields, or, for the multiple writes, with a byte count other than that of
\* its length field or with fewer value bytes than the byte count.
Malformed(msg) ==
    LET fc == msg.function_code
        body == msg.body
        length == body[3] * 256 + body[4]
    IN CASE fc \in {FC_ReadCoils, FC_ReadDiscreteInputs, FC_ReadHoldingRegisters,
                    FC_ReadInputRegisters, FC_WriteSingleCoil,
                    FC_WriteSingleHoldingRegister} -> Len(body) < 4
         [] fc = FC_WriteMultipleCoils ->
                Len(body) < 5 \/ body[5] # (length + 7) \div 8 \/ Len(body) < 5 + body[5]
         [] fc = FC_WriteMultipleHoldingRegisters ->
                Len(body) < 5 \/ body[5] # length * 2 \/ Len(body) < 5 + body[5]
         [] fc = FC_MaskWriteHoldingRegister -> Len(body) < 6
         [] fc = FC_ModbusEncapsulatedInterface ->
                Len(body) < 1 \/ (body[1] = MEI_ReadDeviceIdentification /\ Len(body) < 3)
         [] OTHER -> FALSE

\* C28: a request with a known function code and a malformed body is
\* answered with the exception ServerDeviceFailure, whether the hooks would
\* succeed or fail, and leaves the device as it was: no hook is called; a
\* request with any other function code, unknown or with bit 7 set, is
\* answered with IllegalFunction.
C28_MalformedRequest ==
    \A t \in TaskIds :
        "res_msg" \in DOMAIN task[t] =>
            LET msg == task[t].msg IN
            /\ Malformed(msg) =>
                  /\ task[t].res_msg.function_code = as_err(msg.function_code)
                  /\ task[t].res_msg.body = <<EX_ServerDeviceFailure>>
                  /\ h = FreshDevice
            /\ msg.function_code \notin KnownFunctionCodes =>
                  /\ task[t].res_msg.body = <<EX_IllegalFunction>>
                  /\ h = FreshDevice

\* A WriteMultipleCoils request of nine coils with byte count 1 and one
\* value byte was answered with ServerDeviceFailure.
C28_Witness ==
    \E t \in TaskIds :
        /\ "res_msg" \in DOMAIN task[t]
        /\ task[t].msg.function_code = FC_WriteMultipleCoils
        /\ task[t].msg.body = <<0, 1, 0, 9, 1, 255>>
        /\ task[t].res_msg.body = <<EX_ServerDeviceFailure>>

\* The handler tasks that wrote the reply to a Read Device Identification
\* request, and that request.
Identified ==
    {t \in TaskIds :
        /\ "res_msg" \in DOMAIN task[t]
        /\ task[t].msg.function_code = FC_ModbusEncapsulatedInterface
        /\ ModbusEncapsulatedInterfaceDecode(task[t].msg.body).kind
              = MEI_ReadDeviceIdentification}

IdentificationRequest(t) ==
    ReadDeviceIdentificationRequestDecode(
        ModbusEncapsulatedInterfaceDecode(task[t].msg.body).data)

\* The Read Device Identification response a normal reply carries.
IdentificationResponse(t) ==
    ReadDeviceIdentificationResponseDecode(
        ModbusEncapsulatedInterfaceDecode(task[t].res_msg.body).data)

RejectedWith(t, code) ==
    /\ task[t].res_msg.function_code = as_err(task[t].msg.function_code)
    /\ task[t].res_msg.body = <<code>>

\* C29 (as claimed): a request whose device id code is none of 1, 2, 3, 4
\* is rejected with IllegalDataValue, whether the requested object is
\* present or not; a request with one of those codes for an object that is
\* absent is rejected with IllegalDataAddress.
C29_IdentificationRejections ==
    \A t \in Identified :
        LET req == IdentificationRequest(t)
            present == get_data(h.device_info, req.object_id).some
        IN /\ req.device_id_code \notin {1, 2, 3, 4} => RejectedWith(t, EX_IllegalDataValue)
           /\ (req.device_id_code \in {1, 2, 3, 4} /\ ~present) =>
                  RejectedWith(t, EX_IllegalDataAddress)

\* C30 (as claimed): the reply to a request with code Individual (4) for a
\* present object is a response with that object alone, more_follows
\* false, next_object_id 0 and conformity level ExtendedStreamAndIndividual.
C30_IndividualObject ==
    \A t \in Identified :
        LET req == IdentificationRequest(t)
            data == get_data(h.device_info, req.object_id)
        IN (req.device_id_code = RDI_Individual /\ data.some) =>
              /\ t \in Succeeded
              /\ LET res == IdentificationResponse(t) IN
                 /\ res.ok
                 /\ res.device_id_code = RDI_Individual
                 /\ res.objects = [x \in {req.object_id} |-> data.value]
                 /\ ~res.more_follows
                 /\ res.next_object_id = 0
                 /\ res.conformity_level = CL_ExtendedStreamAndIndividual

\* C30 (amended): that holds for a present object of at most 255 bytes; a
\* present object of more bytes is answered with ServerDeviceFailure.
C30_IndividualObjectThatEncodes ==
    \A t \in Identified :
        LET req == IdentificationRequest(t)
            data == get_data(h.device_info, req.object_id)
        IN (req.device_id_code = RDI_Individual /\ data.some) =>
              IF Len(data.value) > U8_MAX
              THEN RejectedWith(t, EX_ServerDeviceFailure)
              ELSE /\ t \in Succeeded
                   /\ LET res == IdentificationResponse(t) IN
                      /\ res.ok
                      /\ res.device_id_code = RDI_Individual
                      /\ res.objects = [x \in {req.object_id} |-> data.value]
                      /\ ~res.more_follows
                      /\ res.next_object_id = 0
                      /\ res.conformity_level = CL_ExtendedStreamAndIndividual

\* The vendor name, which product code and revision follow, was asked for
\* with code Individual and the reply carries it alone.
C30_Witness ==
    \E t \in Identified \cap Succeeded :
        /\ h.device_info = PartialDevice
        /\ IdentificationRequest(t).device_id_code = RDI_Individual
        /\ IdentificationRequest(t).object_id = 0
        /\ DOMAIN IdentificationResponse(t).objects = {0}

\* The requests with a streaming code (Basic, Regular, Extended) for a
\* present object, answered or not.
Streamed ==
    {t \in TaskIds :
        /\ task[t].pc \in {"write", "release", "done", "panicked"}
        /\ task[t].msg.function_code = FC_ModbusEncapsulatedInterface
        /\ ModbusEncapsulatedInterfaceDecode(task[t].msg.body).kind
              = MEI_ReadDeviceIdentification
        /\ IdentificationRequest(t).device_id_code \in {RDI_Basic, RDI_Regular, RDI_Extended}
        /\ get_data(h.device_info, IdentificationRequest(t).object_id).some}

MaxObjectId(device_id_code) ==
    CASE device_id_code = RDI_Basic -> 2
      [] device_id_code = RDI_Regular -> 127
      [] OTHER -> 255

\* 2 + len for each object of ids.
RECURSIVE ObjectsSize(_, _)
ObjectsSize(device_info, ids) ==
    IF ids = {} THEN 0
    ELSE LET id == MinOf(ids) IN
         2 + Len(get_data(device_info, id).value) + ObjectsSize(device_info, ids \ {id})

\* The page the claim describes for a request of object_id under a
\* streaming code: the ids that follow it and fit, and the first that does
\* not.
PageOf(device_info, device_id_code, object_id) ==
    LET following == {id \in (object_id + 1)..MaxObjectId(device_id_code) :
                         get_data(device_info, id).some}
        size(id) == 8 + 1 + 5 + ObjectsSize(device_info,
                                            {object_id} \cup {j \in following : j <= id})
        excluded == {id \in following : size(id) > MSG_MAX_LENGTH}
    IN [ids |-> {object_id} \cup (following \ excluded),
        next_object_id |-> IF excluded = {} THEN 0 ELSE MinOf(excluded)]

\* C31 (as claimed): the reply to a streaming request for a present object
\* is, when that object alone makes a frame of more than 260 bytes, the
\* exception IllegalDataValue, and else a response with the requested
\* object and the present objects that follow it up to max_object_id, as
\* far as the frame stays within 260 bytes; next_object_id is the first
\* object left out, or 0, and more_follows tells whether it is not 0.
C31_PageContent ==
    \A t \in Streamed :
        LET req == IdentificationRequest(t)
            data == get_data(h.device_info, req.object_id).value
            page == PageOf(h.device_info, req.device_id_code, req.object_id)
        IN /\ task[t].pc # "panicked"
           /\ "res_msg" \in DOMAIN task[t] =>
                 IF 8 + 1 + 5 + 2 + Len(data) > MSG_MAX_LENGTH
                 THEN RejectedWith(t, EX_IllegalDataValue)
                 ELSE /\ t \in Succeeded
                      /\ LET res == IdentificationResponse(t) IN
                         /\ res.ok
                         /\ res.objects = [id \in page.ids |->
                                              get_data(h.device_info, id).value]
                         /\ res.next_object_id = page.next_object_id
                         /\ res.more_follows = (page.next_object_id # 0)

\* C32 (as claimed): every object of a response to a Basic request has an
\* id of at most 0x02, and every object of a response to a Regular request
\* an id of at most 0x7F, whatever object id was asked for.
C32_IdCap ==
    \A t \in Identified \cap Succeeded :
        LET req == IdentificationRequest(t)
            res == IdentificationResponse(t)
        IN /\ req.device_id_code = RDI_Basic => \A id \in DOMAIN res.objects : id <= 2
           /\ req.device_id_code = RDI_Regular => \A id \in DOMAIN res.objects : id <= 127

\* C38 (as claimed): a streaming request for object 255, which is present,
\* is answered, and with a response that holds object 255 alone, with
\* more_follows false and next_object_id 0.
C38_TopObjectId ==
    \A t \in Streamed :
        IdentificationRequest(t).object_id = 255 =>
            /\ task[t].pc # "panicked"
            /\ "res_msg" \in DOMAIN task[t] =>
                  /\ t \in Succeeded
                  /\ LET res == IdentificationResponse(t) IN
                     /\ res.ok
                     /\ res.objects = [id \in {255} |-> get_data(h.device_info, 255).value]
                     /\ ~res.more_follows
                     /\ res.next_object_id = 0

\* C5: every reply the server wrote for a request with function code F that
\* handle_request answered with exception E has function code F | 0x80 (F
\* with bit 7 set), a body of the one byte E, and the transaction id,
\* protocol id and unit id of the request.
C5_ExceptionFraming ==
    \A t \in TaskIds :
        (task[t].pc \in {"release", "done"} /\ ~task[t].result.ok) =>
            LET F == task[t].msg.function_code
                E == task[t].result.code
                reply == task[t].res_msg
            IN /\ reply.function_code = (IF F >= 128 THEN F ELSE F + 128)
               /\ reply.body = <<E>>
               /\ E \in 0..255
               /\ reply.transaction_id = task[t].msg.transaction_id
               /\ reply.protocol_id = task[t].msg.protocol_id
               /\ reply.unit_id = task[t].msg.unit_id

\* A read of holding registers past the end of the address space, answered
\* with function code 0x83 under the request's header.
C5_Witness ==
    \E t \in TaskIds :
        /\ task[t].pc = "done"
        /\ task[t].msg.function_code = FC_ReadHoldingRegisters
        /\ ~task[t].result.ok
        /\ task[t].res_msg.function_code = 131
        /\ Len(task[t].res_msg.body) = 1
        /\ task[t].res_msg.transaction_id = 4660
        /\ task[t].res_msg.unit_id = 255

\* The handler tasks whose handle_request has returned.
Handled == {t \in TaskIds : task[t].pc \in {"write", "release", "done"}}

\* The exception reply to msg with code: function code | 0x80, the code byte.
IsExceptionReply(res_msg, msg, code) ==
    /\ res_msg.function_code = msg.function_code + 128
    /\ res_msg.body = <<code>>
    /\ res_msg.transaction_id = msg.transaction_id

\* C16: a read request (of any of the four read functions) with length 0 or
\* length above the function's maximum is answered with IllegalDataValue; one
\* with a valid length and address + length - 1 above 0xFFFF with
\* IllegalDataAddress; in both cases the handler's hook was not called.
C16_ServerReadValidation ==
    \A t \in Handled :
        (task[t].msg.function_code \in ReadFunctionCodes /\ Len(task[t].msg.body) = 4) =>
            LET address == EchoWord(task[t].msg.body, 1)
                length == EchoWord(task[t].msg.body, 2)
                max_length == ReadMaxLen(task[t].msg.function_code)
                expected ==
                    IF length = 0 \/ length > max_length THEN EX_IllegalDataValue
                    ELSE IF address + length - 1 > 65535 THEN EX_IllegalDataAddress
                    ELSE 0
            IN expected # 0 =>
                  /\ task[t].result.ok = FALSE
                  /\ task[t].result.code = expected
                  /\ ~task[t].result.hook_called
                  /\ "res_msg" \in DOMAIN task[t] =>
                        IsExceptionReply(task[t].res_msg, task[t].msg, expected)

\* A read of two input registers at address 65535 was answered with function
\* code 0x84 and IllegalDataAddress, and the hook was not called.
C16_Witness ==
    \E t \in TaskIds :
        /\ task[t].pc = "done"
        /\ task[t].msg.function_code = FC_ReadInputRegisters
        /\ task[t].msg.body = <<255, 255, 0, 2>>
        /\ task[t].res_msg.function_code = 132
        /\ task[t].res_msg.body = <<EX_IllegalDataAddress>>
        /\ ~task[t].result.hook_called

\* C6 (as claimed): for every successful mask write, the value in the
\* register right after its store is (old & and_mask) | (or_mask & ~and_mask)
\* with old the value in the register right before that store.
C6_MaskWriteAppliesToValueBeforeStore ==
    \A t \in TaskIds :
        (task[t].pc \in {"write", "release", "done"} /\ "stored" \in DOMAIN task[t]
            /\ task[t].result.ok) =>
            LET req == MaskWriteHoldingRegisterRequestDecode(task[t].msg.body)
            IN task[t].stored = MaskValue(task[t].old, req.and_mask, req.or_mask)

\* The connections run() admitted whose connection task has not finished.
Admitted == {k \in Conns : connection[k].state \in {"live", "disconnecting", "decrementing"}}

LifecycleOf(k) ==
    LET c == connection[k] IN
    CASE c.state \in {"none", "dropped", "refused"} ->
            /\ c.disconnected_calls = 0 /\ c.decrements = 0
            /\ c.messages_read = 0
      [] c.state = "live" ->
            /\ c.disconnected_calls = 0 /\ c.decrements = 0
            /\ c.pump.at # "exited"
      [] c.state = "disconnecting" ->
            /\ c.disconnected_calls = 0 /\ c.decrements = 0
            /\ c.pump.at = "exited"
      [] c.state = "decrementing" ->
            /\ c.disconnected_calls = 1 /\ c.decrements = 0
            /\ c.pump.at = "exited"
      [] c.state = "finished" ->
            /\ c.disconnected_calls = 1 /\ c.decrements = 1
            /\ c.pump.at = "exited"

\* The counter is the number of connections run() admitted less the
\* decrements of their tasks: a connection that was not admitted never
\* moved it.
CounterOfAdmitted ==
    connection_count =
        Cardinality({k \in Conns : connection[k].state \in
                        {"live", "disconnecting", "decrementing", "finished"}})
        - Cardinality({k \in Conns : connection[k].decrements = 1})

InFlight(k) ==
    {t \in TaskIds : t[1] = k /\ task[t].pc \in {"hook1", "hook2", "write", "release"}}

\* C9: on every connection, with max_concurrent_requests N > 0 at most N
\* handler tasks are in flight, each holding one of the N permits from before
\* its spawn until after its write; with N = 0 the tasks in flight never use
\* the permits up, so that the read loop is never held back.
C9_RequestConcurrencyBound ==
    \A k \in Admitted :
        LET N == max_concurrent_requests IN
        /\ N > 0 => /\ Cardinality(InFlight(k)) <= N
                    /\ limiter[k] = N - Cardinality(InFlight(k))
        /\ N = 0 => /\ limiter[k] = MAX_PERMITS - Cardinality(InFlight(k))
                    /\ limiter[k] > 0
        /\ \A t \in InFlight(k) : task[t].pc = "release" => "res_msg" \in DOMAIN task[t]

\* With a limit of one, a task is in flight and the read loop holds the
\* next message, waiting for the permit.
C9_Witness ==
    /\ max_concurrent_requests = 1
    /\ Cardinality(InFlight(1)) = 1
    /\ connection[1].pump.at = "acquire"
    /\ limiter[1] = 0

\* Every permit of the connection is with the limiter or with a task in
\* flight: a task that ended, however it ended, gave its permit back.
PermitsConserved(k) ==
    limiter[k] + Cardinality(InFlight(k)) = Permits(max_concurrent_requests)

\* The read loop ends on the outcome of read_message and on nothing else:
\* the step that takes the connection out of "live" is taken at the read
\* and is no step of a handler task.
PumpEndsAtReadOnly ==
    [][\A k \in Conns :
          connection[k].state = "live" /\ connection'[k].state # "live" =>
              /\ connection[k].pump.at = "read"
              /\ task' = task /\ limiter' = limiter]_vars

\* The read loop is never left waiting for a permit that cannot come: when
\* it waits at acquire_owned, a permit is free or a handler task in flight
\* holds one, and a task in flight always has its next step to take.
NeverWedged(k) ==
    connection[k].state = "live" /\ connection[k].pump.at = "acquire" =>
        \/ limiter[k] > 0
        \/ InFlight(k) # {}

\* C19: a request that ends in an exception (of the decode, the validation,
\* a hook or the encoding) or in a failed write leaves the read loop of its
\* connection running: the loop ends at read_message only, no permit is
\* lost with the task, and the loop is never left waiting for a permit
\* that cannot come.
C19_HandlerFailuresContained ==
    /\ PumpEndsAtReadOnly
    /\ [](\A k \in Admitted : PermitsConserved(k) /\ NeverWedged(k))

\* Under a limit of one request the first request ended in an exception
\* whose write failed; the loop read on and the second request was
\* dispatched and answered.
C19_Witness ==
    /\ max_concurrent_requests = 1
    /\ task[<<1, 1>>].pc = "done"
    /\ task[<<1, 1>>].res_msg.function_code >= 128
    /\ "write_failed" \in DOMAIN task[<<1, 1>>]
    /\ task[<<1, 2>>].pc = "done"
    /\ task[<<1, 2>>].res_msg.function_code = FC_ReadHoldingRegisters
    /\ "write_failed" \notin DOMAIN task[<<1, 2>>]
    /\ connection[1].state = "live" /\ connection[1].pump.at = "read"

\* C36 (as claimed): once disconnected(addr) has been called for a
\* connection, none of the handler tasks its pump spawned is still in
\* flight: none has a hook to call, a response to write or a permit to
\* give back.
C36_NoHookAfterDisconnect ==
    \A k \in Conns : connection[k].disconnected_calls > 0 => InFlight(k) = {}

\* The request of task t was answered: one write of a response under the
\* request's transaction id was attempted and the permit went back.
RequestAnswered(t) ==
    /\ task[t].pc = "done"
    /\ "res_msg" \in DOMAIN task[t]
    /\ task[t].res_msg.transaction_id = task[t].msg.transaction_id

\* Nothing is left to do for the requests read so far: the read loop waits
\* for no permit and every request dispatched was answered.
Settled ==
    /\ \A k \in Conns :
          ~(connection[k].state = "live" /\ connection[k].pump.at = "acquire")
    /\ \A t \in TaskIds : task[t].pc = "none" \/ RequestAnswered(t)

\* C40: every request the read loop read is dispatched, and every request
\* dispatched is in the end answered: its response, under its transaction
\* id, was handed to one write and its permit was released afterwards,
\* whether or not the write failed.  A connection carries finitely many
\* requests, so this is to say that in the end nothing is left to do.
C40_ServerProgress == <>[]Settled

(***************************************************************************)
(* Properties of client and server together.                               *)
(***************************************************************************)
\* C10 (as claimed): read_coils with valid arguments, answered by the server
\* from the stored coils, returns exactly `length` booleans, the coils
\* address .. address + length - 1 in order.
C10_ReadCoilsReturnsRequestedCoils ==
    \A c \in Callers :
        (pc[c] = "done" /\ call[c].op = "read_coils" /\ slot[c].state = "ok"
            /\ slot[c].item.answers = c) =>
            result[c] = Success([i \in 1..call[c].length |->
                                    CoilAt(FreshDevice.coils, call[c].address + i - 1)])

\* C13 (as claimed): every frame a caller of the client wrote and every
\* reply frame a handler task of the server wrote is at most 260 bytes long.
C13_FrameLengthCap ==
    /\ \A c \in Callers : Len(sent[c]) <= MSG_MAX_LENGTH
    /\ \A t \in TaskIds :
          "res_msg" \in DOMAIN task[t] =>
              Len(MessageEncode(task[t].res_msg).bytes) <= MSG_MAX_LENGTH

\* C20 (as claimed): every frame a caller of the client wrote and every
\* frame a handler task of the server wrote carries protocol id 0, whatever
\* the peer sent.
C20_ProtocolIdZero ==
    /\ \A c \in Callers :
          sent[c] # <<>> => sent[c][3] * 256 + sent[c][4] = 0   \* bytes 2..3 of the header
    /\ \A t \in TaskIds :
          "res_msg" \in DOMAIN task[t] => task[t].res_msg.protocol_id = 0

\* C23: read_device_identification sends at most 255 requests and then
\* returns, whatever the peer answers and also when every page has
\* more_follows set; a request that ends in an error ends the operation
\* with that error, and only a request that ends in a page lets the loop
\* go on.
C23_PagingTerminates ==
    /\ [](rdi.state = "loop" =>
             /\ rdi.iterations <= 255
             /\ "last_reply" \in DOMAIN rdi => rdi.last_reply.error = NoResult)
    /\ [](rdi.state = "done" /\ "requests" \in DOMAIN rdi =>
             /\ rdi.requests <= 255
             /\ rdi.last_reply.error # NoResult
             /\ rdi.outcome = rdi.last_reply.error)
    /\ (rdi.state = "loop") ~> (rdi.state = "done")

\* Each of 255 requests was answered with a page that has more_follows set:
\* no further request is sent, the operation is about to return.
C23_Witness ==
    /\ rdi.state = "loop"
    /\ rdi.iterations = 255
    /\ rdi.more_follows
    /\ ~ENABLED (\E reply \in FaultyPeerReplies : RdiPageFromPeer(1, reply))

\* C7 (as claimed): against a handler that advertises a device whose
\* objects all fit a frame, read_device_identification returns (it is never
\* left waiting for a page that will not come) and returns the advertised
\* DeviceIdentification.
C7_PagingReturnsAdvertised ==
    /\ rdi.state # "waiting"
    /\ rdi.state = "done" => rdi.outcome = Success(h.device_info)

====
